---------------------------- MODULE Spec2Model ----------------------------
(***************************************************************************)
(* Model of the property portfolio simulation engine                       *)
(* (src/back/core/strategies.py, PropertyPortfolioSimulator) together with *)
(* the investment profile it reads (src/back/core/main.py) and the API     *)
(* functions that build both from a request (src/back/api/endpoints.py).   *)
(*                                                                         *)
(* Money is an integer number of rand.  Ratios the source keeps as floats  *)
(* are integers of a fixed scale: percentages (leverage_ratio, vacancy     *)
(* rate, LTV), basis points per year (interest and appreciation rates) and *)
(* thousandths of a year (refinance_frequency_years).  A float division of *)
(* the source is an integer division here, so amounts agree with the       *)
(* source up to rounding; the control flow is the source's.                *)
(***************************************************************************)
EXTENDS Integers, Sequences, FiniteSets, TLC

(***************************************************************************)
(* Bounds of the model: the longest horizon in months, and the number of   *)
(* simulate() calls made on one simulator.                                 *)
(***************************************************************************)
MaxMonths == 12

MaxCalls == 2

(***************************************************************************)
(* Python's None for an optional number, and `x or default`.               *)
(***************************************************************************)
None == -1

OrDefault(x, d) == IF x = None \/ x = 0 THEN d ELSE x

Max(a, b) == IF a >= b THEN a ELSE b

Min(a, b) == IF a <= b THEN a ELSE b

RECURSIVE SumSeq(_)
SumSeq(s) == IF s = <<>> THEN 0 ELSE Head(s) + SumSeq(Tail(s))

(***************************************************************************)
(* Fixed-point scale of the monthly rates: one basis point.                *)
(***************************************************************************)
Scale == 100 * 100

DefaultInterestBp == 1050

DefaultLoanTermYears == 20

DefaultTargetLtv == 60

MinExtraction == 10000

(***************************************************************************)
(* Investment profiles (PropertyInvestment) the runs are drawn from.       *)
(***************************************************************************)
BaseProfile ==
    [ purchase_price |-> 1000000, transfer_duty |-> 10000,
      conveyancing_fees |-> 15000, bond_registration |-> 15000,
      furnishing_cost |-> 50000,
      financing_type |-> "cash", ltv_ratio |-> 0,
      appreciation_rate |-> 600, interest_rate |-> 1000, loan_term_years |-> 20,
      monthly_rental_income |-> 12000, vacancy_rate |-> 5,
      monthly_levies |-> 1500, property_management_fee_rate |-> 8,
      monthly_insurance |-> 600, monthly_maintenance_reserve |-> 800,
      monthly_furnishing_repair_costs |-> 300,
      available_investment_amount |-> 2000000,
      enable_refinancing |-> FALSE, target_refinance_ltv |-> 60 ]

Profiles ==
    { [BaseProfile EXCEPT !.available_investment_amount = a,
                          !.monthly_rental_income = r] :
        a \in {500000, 310000, 1200000, 2000000},
        r \in {12000, 6000} }
    \cup { [BaseProfile EXCEPT !.target_refinance_ltv = None] }

(***************************************************************************)
(* Profiles that exercise PropertyInvestment.__post_init__ and the loan    *)
(* payment: the leveraged profile of the basic test, the same profile      *)
(* without an interest rate, without and with a negative bond registration *)
(* cost, with a zero interest rate and with a rent below the costs of a    *)
(* property; cash profiles with the profile's                              *)
(* own refinancing flag set, with and without a target LTV, with a loan to *)
(* value ratio, with a zero interest rate and with a zero purchase price,  *)
(* one whose rent and capital make a leveraged run fail its cash check    *)
(* in the third period, when a quarterly refinancing is due, and one whose *)
(* rent covers the expenses before the vacancy allowance but not after it, *)
(* with 100 left once the first property is bought for cash.  The last    *)
(* profile has no acquisition cost besides the price.                      *)
(***************************************************************************)
LeveragedProfile ==
    [BaseProfile EXCEPT !.financing_type = "leveraged", !.ltv_ratio = 80,
                        !.target_refinance_ltv = None]

LeveragedProfiles ==
    { LeveragedProfile,
      [LeveragedProfile EXCEPT !.interest_rate = None],
      [LeveragedProfile EXCEPT !.bond_registration = 0],
      [LeveragedProfile EXCEPT !.bond_registration = 0 - 15000],
      [LeveragedProfile EXCEPT !.interest_rate = 0],
      [LeveragedProfile EXCEPT !.available_investment_amount = 1210000,
                               !.monthly_rental_income = 3000] }

CostFreeProfile ==
    [BaseProfile EXCEPT !.transfer_duty = 0, !.conveyancing_fees = 0,
                        !.bond_registration = 0, !.furnishing_cost = None]

CashProfiles ==
    { [BaseProfile EXCEPT !.enable_refinancing = TRUE,
                          !.target_refinance_ltv = None],
      [BaseProfile EXCEPT !.enable_refinancing = TRUE],
      [BaseProfile EXCEPT !.ltv_ratio = 80],
      [BaseProfile EXCEPT !.interest_rate = None, !.loan_term_years = None,
                          !.bond_registration = 0],
      [BaseProfile EXCEPT !.interest_rate = 0],
      [BaseProfile EXCEPT !.purchase_price = 0],
      [BaseProfile EXCEPT !.available_investment_amount = 1210000,
                          !.monthly_rental_income = 3000],
      [BaseProfile EXCEPT !.available_investment_amount = 1090100,
                          !.monthly_rental_income = 3500] }

(***************************************************************************)
(* Capital injection rules (AdditionalCapitalInjection).  specific_periods *)
(* is a set; the empty set stands for None.                                *)
(***************************************************************************)
Injection(amount, frequency, start, end, specific) ==
    [ amount |-> amount, frequency |-> frequency, start_period |-> start,
      end_period |-> end, specific_periods |-> specific ]

InjectionLists ==
    { <<>>,
      << Injection(300000, "monthly", 1, None, {}) >>,
      << Injection(600000, "one_time", 2, None, {}),
         Injection(100000, "quarterly", 1, 4, {}) >> }

(***************************************************************************)
(* Rules that exercise the window and the trigger set: a one-time rule     *)
(* with trigger periods 3 and 7, the same rule starting late or ending     *)
(* early, yearly and five-yearly rules, and a rule whose end period is 0.  *)
(***************************************************************************)
WindowInjectionLists ==
    { << Injection(100000, "one_time", 1, None, {3, 7}) >>,
      << Injection(100000, "one_time", 4, None, {3, 7}),
         Injection(50000, "yearly", 1, None, {}) >>,
      << Injection(50000, "five_yearly", 2, 5, {}),
         Injection(100000, "one_time", 1, 5, {3, 7}) >>,
      << Injection(100000, "monthly", 1, 0, {}) >> }

Horizons == {0, 1, MaxMonths \div 2, MaxMonths}

(***************************************************************************)
(* Strategy configurations (StrategyConfig), built as the factory          *)
(* functions build them.                                                   *)
(***************************************************************************)
create_cash_strategy(months, reinvestment, tracking, injections) ==
    [ strategy_type |-> "cash_only", simulation_months |-> months,
      leverage_ratio |-> 0, leveraged_property_ratio |-> 0,
      cash_property_ratio |-> 100, first_property_type |-> "cash",
      enable_refinancing |-> FALSE, refinance_frequency_years |-> 1000,
      enable_reinvestment |-> reinvestment, tracking_frequency |-> tracking,
      additional_capital_injections |-> injections ]

create_leveraged_strategy(months, leverage_ratio, refinancing, refinance_years, reinvestment, tracking, injections) ==
    [ strategy_type |-> "leveraged", simulation_months |-> months,
      leverage_ratio |-> leverage_ratio, leveraged_property_ratio |-> 100,
      cash_property_ratio |-> 0, first_property_type |-> "leveraged",
      enable_refinancing |-> refinancing,
      refinance_frequency_years |-> refinance_years,
      enable_reinvestment |-> reinvestment, tracking_frequency |-> tracking,
      additional_capital_injections |-> injections ]

create_mixed_strategy(months, leveraged_property_ratio, cash_property_ratio, leverage_ratio, first_property_type, refinancing, refinance_years, reinvestment, tracking, injections) ==
    [ strategy_type |-> "mixed", simulation_months |-> months,
      leverage_ratio |-> leverage_ratio,
      leveraged_property_ratio |-> leveraged_property_ratio,
      cash_property_ratio |-> cash_property_ratio,
      first_property_type |-> first_property_type,
      enable_refinancing |-> refinancing,
      refinance_frequency_years |-> refinance_years,
      enable_reinvestment |-> reinvestment, tracking_frequency |-> tracking,
      additional_capital_injections |-> injections ]


VARIABLES base_property, strategy, pc, month, properties, cash_available,
          property_counter, total_additional_capital_injected,
          total_additional_capital, simulation_ended, end_reason,
          all_snapshots, snapshots, calls, built_with, raised,
          request, response

vars == << base_property, strategy, pc, month, properties, cash_available,
           property_counter, total_additional_capital_injected,
           total_additional_capital, simulation_ended, end_reason,
           all_snapshots, snapshots, calls, built_with, raised,
           request, response >>

(***************************************************************************)
(* What the caller outside the simulator holds: how the strategy           *)
(* configuration was built (by a factory function or by calling the        *)
(* StrategyConfig dataclass) and the message of the ValueError that        *)
(* construction raised, "None" when it raised none; for a run made through *)
(* the API, the SimulationRequest and the SimulationResponse.              *)
(***************************************************************************)
boundary == << built_with, raised, request, response >>

(***************************************************************************)
(* financing_type label of a property: "cash" or "<pct>%_leverage".        *)
(***************************************************************************)
CashLabel == [kind |-> "cash", pct |-> 0]

LeverageLabel(pct) == [kind |-> "leverage", pct |-> pct]

IsCash(financing_type) == financing_type.kind = "cash"

(***************************************************************************)
(* PropertyAcquisitionCosts.total_unfurnished_cost and                     *)
(* OperatingParameters.annual_rental_income.                               *)
(***************************************************************************)
total_unfurnished_cost ==
    base_property.purchase_price + base_property.transfer_duty
      + base_property.conveyancing_fees + base_property.bond_registration

annual_rental_income == base_property.monthly_rental_income * 12

(***************************************************************************)
(* (1 + monthly_rate) ** n in fixed point: q = Scale + monthly rate.       *)
(***************************************************************************)
RECURSIVE PowFix(_, _)
PowFix(q, n) ==
    IF n = 0 THEN Scale
    ELSE IF n % 2 = 1 THEN (PowFix(q, n - 1) * q) \div Scale
    ELSE LET half == PowFix(q, n \div 2) IN (half * half) \div Scale

(***************************************************************************)
(* _calculate_monthly_payment: the fixed-payment loan formula.             *)
(***************************************************************************)
_calculate_monthly_payment(loan_amount) ==
    IF loan_amount <= 0 THEN 0
    ELSE LET interest_rate   == OrDefault(base_property.interest_rate, DefaultInterestBp)
             loan_term_years == OrDefault(base_property.loan_term_years, DefaultLoanTermYears)
             monthly_rate    == interest_rate \div 12
             num_payments    == loan_term_years * 12
             growth          == PowFix(Scale + monthly_rate, num_payments)
         IN  IF monthly_rate = 0
             THEN loan_amount \div num_payments
             ELSE ((loan_amount \div 100)
                     * ((monthly_rate * growth * 100) \div (growth - Scale)))
                    \div Scale

(***************************************************************************)
(* PropertyInvestment.monthly_bond_payment of the profile: None (here 0,   *)
(* as the engine reads it with `or 0.0`) for cash financing, the loan      *)
(* divided by the number of payments when the monthly rate is 0, the       *)
(* fixed-payment formula otherwise.  The rate is the profile's own: no     *)
(* default stands in for a zero rate.  The property raises when the rate   *)
(* or the term of a leveraged profile is None; the profiles of the model   *)
(* that pass __post_init__ have both.                                      *)
(***************************************************************************)
monthly_bond_payment ==
    IF base_property.financing_type = "cash" THEN 0
    ELSE LET loan         == (base_property.purchase_price
                                * base_property.ltv_ratio) \div 100
             monthly_rate == base_property.interest_rate \div 12
             num_payments == base_property.loan_term_years * 12
             growth       == PowFix(Scale + monthly_rate, num_payments)
         IN  IF monthly_rate = 0
             THEN loan \div num_payments
             ELSE ((loan \div 100)
                     * ((monthly_rate * growth * 100) \div (growth - Scale)))
                    \div Scale

_calculate_annual_expenses ==
    base_property.monthly_levies * 12
      + (annual_rental_income * base_property.property_management_fee_rate) \div 100
      + base_property.monthly_insurance * 12
      + base_property.monthly_maintenance_reserve * 12
      + OrDefault(base_property.monthly_furnishing_repair_costs, 0) * 12

_calculate_monthly_cashflow ==
    (base_property.monthly_rental_income * (100 - base_property.vacancy_rate)) \div 100
      - ( base_property.monthly_levies
          + (base_property.monthly_rental_income
               * base_property.property_management_fee_rate) \div 100
          + base_property.monthly_insurance
          + base_property.monthly_maintenance_reserve
          + OrDefault(base_property.monthly_furnishing_repair_costs, 0) )
      - monthly_bond_payment

PropertyData_IdReused(id, price, loan, payment, label, cost_basis) ==
    [ property_id |-> Max(0, id - 1), purchase_price |-> price, current_value |-> price,
      loan_amount |-> loan, monthly_payment |-> payment,
      financing_type |-> label, months_owned |-> 0,
      annual_rental_income |-> annual_rental_income,
      annual_expenses |-> _calculate_annual_expenses,
      monthly_cashflow |-> _calculate_monthly_cashflow,
      cost_basis |-> cost_basis ]

PropertyData(id, price, loan, payment, label, cost_basis) ==
    [ property_id |-> id, purchase_price |-> price, current_value |-> price,
      loan_amount |-> loan, monthly_payment |-> payment,
      financing_type |-> label, months_owned |-> 0,
      annual_rental_income |-> annual_rental_income,
      annual_expenses |-> _calculate_annual_expenses,
      monthly_cashflow |-> _calculate_monthly_cashflow,
      cost_basis |-> cost_basis ]

PropertyPurchase(id, price, cash_required, label, loan) ==
    [ property_id |-> id, purchase_price |-> price,
      cash_required |-> cash_required, financing_type |-> label,
      loan_amount |-> loan ]

(***************************************************************************)
(* _initialize_portfolio: financing of the first property, the cash it     *)
(* needs and whether the available capital covers it.                      *)
(***************************************************************************)
FirstPropertyLeveraged ==
    CASE strategy.strategy_type = "cash_only" -> FALSE
      [] strategy.strategy_type = "leveraged" -> TRUE
      [] OTHER -> strategy.first_property_type # "cash"

FirstLoanAmount ==
    IF FirstPropertyLeveraged
    THEN (base_property.purchase_price * strategy.leverage_ratio) \div 100
    ELSE 0

FirstCashRequired_FeesOnly ==
    base_property.transfer_duty + base_property.conveyancing_fees
      + base_property.bond_registration
      + OrDefault(base_property.furnishing_cost, 0)

FirstCashRequired ==
    IF ~FirstPropertyLeveraged
    THEN total_unfurnished_cost + OrDefault(base_property.furnishing_cost, 0)
    ELSE (base_property.purchase_price * (100 - strategy.leverage_ratio)) \div 100
           + base_property.transfer_duty + base_property.conveyancing_fees
           + base_property.bond_registration
           + OrDefault(base_property.furnishing_cost, 0)

CanAffordFirst_Unchecked(available_cash, cash_required) == TRUE

CanAffordFirst(available_cash, cash_required) == ~(available_cash < cash_required)

FirstPropertyReason(cash_required, available_cash) ==
    [ kind |-> "Insufficient cash to buy first property",
      need |-> cash_required, have |-> available_cash ]

DeficitReason(deficit, available_cash) ==
    [ kind |-> "Insufficient cash to cover monthly operating deficit",
      need |-> deficit, have |-> available_cash ]

NoReason == [ kind |-> "None", need |-> 0, have |-> 0 ]

(***************************************************************************)
(* _apply_appreciation: one month of appreciation on every property.       *)
(***************************************************************************)
_apply_appreciation(props) ==
    [ i \in 1..Len(props) |->
        [ props[i] EXCEPT
            !.current_value = @ + (@ * base_property.appreciation_rate) \div 120000,
            !.months_owned  = @ + 1 ] ]

(***************************************************************************)
(* _apply_monthly_operations: amortization and rent of one property.       *)
(***************************************************************************)
AmortizedLoan_InterestOnly(prop) ==
    IF prop.loan_amount > 0 /\ prop.monthly_payment > 0
    THEN LET interest_rate     == OrDefault(base_property.interest_rate, DefaultInterestBp)
             monthly_rate      == interest_rate \div 12
             monthly_interest  == (prop.loan_amount * monthly_rate) \div Scale
         IN  prop.loan_amount + monthly_interest
    ELSE prop.loan_amount

AmortizedLoan(prop) ==
    IF prop.loan_amount > 0 /\ prop.monthly_payment > 0
    THEN LET interest_rate     == OrDefault(base_property.interest_rate, DefaultInterestBp)
             monthly_rate      == interest_rate \div 12
             monthly_interest  == (prop.loan_amount * monthly_rate) \div Scale
             principal_payment == Min(prop.monthly_payment - monthly_interest,
                                      prop.loan_amount)
         IN  Max(0, prop.loan_amount - principal_payment)
    ELSE prop.loan_amount

PropertyMonthlyCashflow(prop) ==
    LET monthly_gross_rent     == prop.annual_rental_income \div 12
        monthly_effective_rent == (monthly_gross_rent
                                     * (100 - base_property.vacancy_rate)) \div 100
        monthly_expenses       == prop.annual_expenses \div 12
    IN  monthly_effective_rent - monthly_expenses - prop.monthly_payment

_apply_monthly_operations(props) ==
    [ i \in 1..Len(props) |->
        [ props[i] EXCEPT !.loan_amount      = AmortizedLoan(props[i]),
                          !.monthly_cashflow = PropertyMonthlyCashflow(props[i]) ] ]

TotalMonthlyCashflow(props) ==
    SumSeq([ i \in 1..Len(props) |-> props[i].monthly_cashflow ])

(***************************************************************************)
(* _should_inject_capital and _apply_additional_capital_injections.        *)
(***************************************************************************)
OneTimeFires_StartOnly(injection_config, current_month) ==
    current_month = injection_config.start_period

OneTimeFires_FirstTrigger(injection_config, current_month) ==
    IF injection_config.specific_periods # {}
    THEN /\ current_month \in injection_config.specific_periods
         /\ \A q \in injection_config.specific_periods : current_month <= q
    ELSE current_month = injection_config.start_period

OneTimeFires(injection_config, current_month) ==
    IF injection_config.specific_periods # {}
    THEN current_month \in injection_config.specific_periods
    ELSE current_month = injection_config.start_period

_should_inject_capital(injection_config, current_month) ==
    LET start_month        == injection_config.start_period
        end_month          == injection_config.end_period
        months_since_start == current_month - start_month
    IN  IF current_month < start_month THEN FALSE
        ELSE IF OrDefault(end_month, 0) # 0 /\ current_month > end_month THEN FALSE
        ELSE IF injection_config.frequency = "one_time"
             THEN OneTimeFires(injection_config, current_month)
        ELSE CASE injection_config.frequency = "monthly"     -> TRUE
               [] injection_config.frequency = "quarterly"   -> months_since_start % 3 = 0
               [] injection_config.frequency = "yearly"      -> months_since_start % 12 = 0
               [] injection_config.frequency = "five_yearly" -> months_since_start % 60 = 0
               [] OTHER -> FALSE

RECURSIVE InjectionEvents(_, _, _)
InjectionEvents(configs, current_month, total_so_far) ==
    IF configs = <<>> THEN <<>>
    ELSE IF _should_inject_capital(Head(configs), current_month)
         THEN << [ amount |-> Head(configs).amount,
                   source |-> Head(configs).frequency,
                   total_additional_capital_to_date |->
                       total_so_far + Head(configs).amount ] >>
              \o InjectionEvents(Tail(configs), current_month,
                                 total_so_far + Head(configs).amount)
         ELSE InjectionEvents(Tail(configs), current_month, total_so_far)

_apply_additional_capital_injections(current_month, total_so_far) ==
    InjectionEvents(strategy.additional_capital_injections, current_month,
                    total_so_far)

InjectedAmount(events) ==
    SumSeq([ i \in 1..Len(events) |-> events[i].amount ])

(***************************************************************************)
(* _calculate_monthly_operating_deficit.                                   *)
(***************************************************************************)
PropertyDeficit(prop) ==
    Max(0, prop.annual_expenses \div 12 + prop.monthly_payment
             - prop.annual_rental_income \div 12)

_calculate_monthly_operating_deficit(props) ==
    SumSeq([ i \in 1..Len(props) |-> PropertyDeficit(props[i]) ])

CashInsufficient(deficit, cash) == deficit > 0 /\ cash < deficit

(***************************************************************************)
(* _should_refinance: int(refinance_frequency_years * 12) and the calendar *)
(* test.  A zero interval makes the modulo raise ZeroDivisionError.        *)
(***************************************************************************)
refinance_frequency_months == (strategy.refinance_frequency_years * 12) \div 1000

_should_refinance(current_month) ==
    current_month % refinance_frequency_months = 0

(***************************************************************************)
(* _apply_refinancing, one property at a time.                             *)
(***************************************************************************)
target_ltv == OrDefault(base_property.target_refinance_ltv, DefaultTargetLtv)

MaxNewLoan(prop) == (prop.current_value * target_ltv) \div 100

CashExtracted(prop) == Max(0, MaxNewLoan(prop) - prop.loan_amount)

Refinances_NoThreshold(prop) ==
    /\ ~IsCash(prop.financing_type)
    /\ prop.current_value > 0

Refinances(prop) ==
    /\ ~IsCash(prop.financing_type)
    /\ prop.current_value > 0
    /\ CashExtracted(prop) > MinExtraction

RefinancedProperty(prop) ==
    IF Refinances(prop)
    THEN [ prop EXCEPT !.loan_amount     = MaxNewLoan(prop),
                       !.monthly_payment = _calculate_monthly_payment(MaxNewLoan(prop)) ]
    ELSE prop

RefinancingEvent(prop) ==
    [ property_id |-> prop.property_id, property_value |-> prop.current_value,
      old_loan_amount |-> prop.loan_amount, new_loan_amount |-> MaxNewLoan(prop),
      cash_extracted |-> CashExtracted(prop), new_ltv |-> target_ltv ]

RECURSIVE RefinancingEvents(_)
RefinancingEvents(props) ==
    IF props = <<>> THEN <<>>
    ELSE (IF Refinances(Head(props)) THEN << RefinancingEvent(Head(props)) >>
          ELSE <<>>) \o RefinancingEvents(Tail(props))

_apply_refinancing_CashNotCredited(props) ==
    LET events == RefinancingEvents(props)
    IN  [ properties |-> [ i \in 1..Len(props) |-> RefinancedProperty(props[i]) ],
          cash_extracted |-> 0,
          events |-> events ]

_apply_refinancing(props) ==
    LET events == RefinancingEvents(props)
    IN  [ properties |-> [ i \in 1..Len(props) |-> RefinancedProperty(props[i]) ],
          cash_extracted |->
              SumSeq([ i \in 1..Len(events) |-> events[i].cash_extracted ]),
          events |-> events ]

(***************************************************************************)
(* _should_use_leverage_for_next_property.  The two deficits are compared  *)
(* after multiplying both by 100 * (number of properties).                 *)
(***************************************************************************)
LeveragedCount(props) ==
    Cardinality({ i \in 1..Len(props) : ~IsCash(props[i].financing_type) })

LeverageDeficit(props) ==
    strategy.leveraged_property_ratio * Len(props) - 100 * LeveragedCount(props)

CashDeficit(props) ==
    strategy.cash_property_ratio * Len(props)
      - 100 * (Len(props) - LeveragedCount(props))

DeficitChoosesLeverage_Reversed(leverage_deficit, cash_deficit) ==
    leverage_deficit < cash_deficit

DeficitChoosesLeverage(leverage_deficit, cash_deficit) ==
    leverage_deficit > cash_deficit

_should_use_leverage_ByRatio(props) ==
    IF strategy.strategy_type = "mixed" /\ Len(props) > 0
    THEN DeficitChoosesLeverage(LeverageDeficit(props), CashDeficit(props))
    ELSE strategy.leverage_ratio > 0

_should_use_leverage_for_next_property(props) ==
    CASE strategy.strategy_type = "cash_only" -> FALSE
      [] strategy.strategy_type = "leveraged" -> TRUE
      [] OTHER ->
           IF Len(props) = 0
           THEN strategy.first_property_type = "leveraged"
           ELSE DeficitChoosesLeverage(LeverageDeficit(props), CashDeficit(props))

(***************************************************************************)
(* _apply_reinvestment: buy at the template price while cash covers it.    *)
(***************************************************************************)
NextCashRequired(use_leverage) ==
    (IF use_leverage
     THEN (base_property.purchase_price * (100 - strategy.leverage_ratio)) \div 100
            + base_property.bond_registration
     ELSE base_property.purchase_price)
      + base_property.transfer_duty + base_property.conveyancing_fees
      + OrDefault(base_property.furnishing_cost, 0)

NextLoanAmount(use_leverage) ==
    IF use_leverage
    THEN (base_property.purchase_price * strategy.leverage_ratio) \div 100
    ELSE 0

NextLabel(use_leverage) ==
    IF use_leverage THEN LeverageLabel(strategy.leverage_ratio) ELSE CashLabel

RECURSIVE _apply_reinvestment(_, _, _)
_apply_reinvestment(props, cash, counter) ==
    LET use_leverage  == _should_use_leverage_for_next_property(props)
        cash_required == NextCashRequired(use_leverage)
        loan_amount   == NextLoanAmount(use_leverage)
        new_property  == PropertyData(counter, base_property.purchase_price,
                                      loan_amount,
                                      _calculate_monthly_payment(loan_amount),
                                      NextLabel(use_leverage), cash_required)
        purchase      == PropertyPurchase(counter, base_property.purchase_price,
                                          cash_required, NextLabel(use_leverage),
                                          loan_amount)
    IN  IF cash >= cash_required
        THEN LET rest == _apply_reinvestment(Append(props, new_property),
                                             cash - cash_required, counter + 1)
             IN  [ rest EXCEPT !.purchases = << purchase >> \o @ ]
        ELSE [ properties |-> props, cash_available |-> cash,
               property_counter |-> counter, purchases |-> <<>> ]

(***************************************************************************)
(* The `while True` loop of _apply_reinvestment has one exit, the branch   *)
(* taken when cash is below the cash required.  When the cash required is  *)
(* not positive for any financing kind the strategy can choose and cash    *)
(* covers it, a purchase does not lower cash and the exit is never taken.  *)
(***************************************************************************)
KindsBought ==
    CASE strategy.strategy_type = "cash_only" -> {FALSE}
      [] strategy.strategy_type = "leveraged" -> {TRUE}
      [] OTHER -> BOOLEAN

LoopNeverExits(cash) ==
    \A use_leverage \in KindsBought :
        /\ NextCashRequired(use_leverage) <= 0
        /\ cash >= NextCashRequired(use_leverage)

RECURSIVE ReinvestmentDiverges(_, _, _)
ReinvestmentDiverges(props, cash, counter) ==
    LET use_leverage  == _should_use_leverage_for_next_property(props)
        cash_required == NextCashRequired(use_leverage)
        loan_amount   == NextLoanAmount(use_leverage)
        new_property  == PropertyData(counter, base_property.purchase_price,
                                      loan_amount, 0,
                                      NextLabel(use_leverage), cash_required)
    IN  IF LoopNeverExits(cash) THEN TRUE
        ELSE IF cash >= cash_required
             THEN ReinvestmentDiverges(Append(props, new_property),
                                       cash - cash_required, counter + 1)
             ELSE FALSE

(***************************************************************************)
(* _calculate_total_cash_invested: the sum of the cost bases.              *)
(***************************************************************************)
_calculate_total_cash_invested(props) ==
    SumSeq([ i \in 1..Len(props) |-> props[i].cost_basis ])

(***************************************************************************)
(* Yields, in whole percent.  Every ratio of the yield computations is     *)
(* written `n / d if d > 0 else 0.0` in the source.                        *)
(***************************************************************************)
periods_per_year == IF strategy.tracking_frequency = "yearly" THEN 1 ELSE 12

SafeRatio_AsIfOne(numerator, denominator) ==
    IF denominator > 0 THEN (numerator * 100) \div denominator
    ELSE numerator * 100

SafeRatio(numerator, denominator) ==
    IF denominator > 0 THEN (numerator * 100) \div denominator ELSE 0

(***************************************************************************)
(* (current_value / purchase_price) ** (1 / years_held) - 1, in whole      *)
(* percent.  years_held is months_owned / 12, or 1 for a property bought   *)
(* in this period, so the power is the months_owned-th root of the twelfth *)
(* power of the value ratio; the root is found by bisection in fixed       *)
(* point.                                                                  *)
(***************************************************************************)
RECURSIVE PowExceeds(_, _, _, _)
PowExceeds(acc, q, n, target) ==
    IF acc > target THEN TRUE
    ELSE IF n = 0 THEN FALSE
    ELSE PowExceeds((acc * q) \div Scale, q, n - 1, target)

RECURSIVE RootFix(_, _, _, _)
RootFix(lo, hi, target, n) ==
    IF lo >= hi THEN lo
    ELSE LET mid == (lo + hi + 1) \div 2
         IN  IF ~PowExceeds(Scale, mid, n, target)
             THEN RootFix(mid, hi, target, n)
             ELSE RootFix(lo, mid - 1, target, n)

AnnualizedGrowth(prop) ==
    LET ratio == ((prop.current_value \div 100) * Scale)
                   \div (prop.purchase_price \div 100)
        power == PowFix(ratio, 12)
    IN  IF prop.months_owned > 0
        THEN IF ratio >= Scale
             THEN (RootFix(Scale, power, power, prop.months_owned) - Scale)
                    \div 100
             ELSE 0 - 100
        ELSE (ratio - Scale) \div 100

capital_growth_yield(prop) ==
    IF prop.purchase_price > 0 THEN AnnualizedGrowth(prop) ELSE 0

total_return_yield_GrowthOnly(net_rental_yield, growth) == growth

total_return_yield(net_rental_yield, growth) == net_rental_yield + growth

CashInvested(prop) ==
    IF IsCash(prop.financing_type) THEN prop.purchase_price
    ELSE (prop.purchase_price * (100 - prop.financing_type.pct)) \div 100
           + (prop.purchase_price * 8) \div 100

_calculate_property_yields(prop) ==
    LET cash_invested   == CashInvested(prop)
        annual_cashflow == prop.annual_rental_income - prop.annual_expenses
                             - prop.monthly_payment * 12
        net_rental_yield ==
            SafeRatio(prop.annual_rental_income - prop.annual_expenses,
                      prop.current_value)
        growth == capital_growth_yield(prop)
    IN  [ property_id |-> prop.property_id,
          rental_yield |->
              SafeRatio(prop.annual_rental_income, prop.current_value),
          net_rental_yield |-> net_rental_yield,
          cash_on_cash_return |-> SafeRatio(annual_cashflow, cash_invested),
          total_return_yield |-> total_return_yield(net_rental_yield, growth),
          capital_growth_yield |-> growth ]

_calculate_annual_yields(props, current_period, per_year) ==
    IF per_year = 12 /\ current_period % 12 # 0 THEN <<>>
    ELSE IF per_year = 1
         THEN [ i \in 1..Len(props) |-> _calculate_property_yields(props[i]) ]
         ELSE <<>>

(***************************************************************************)
(* The weighted average of the growth of the properties held for at least  *)
(* a month, the weights being their current values.                        *)
(***************************************************************************)
Weighted(props) ==
    [ i \in 1..Len(props) |->
        IF props[i].months_owned > 0 /\ props[i].purchase_price > 0
        THEN [ growth |-> AnnualizedGrowth(props[i]) * (props[i].current_value \div 100),
               weight |-> props[i].current_value \div 100 ]
        ELSE [ growth |-> 0, weight |-> 0 ] ]

portfolio_capital_growth_yield(props) ==
    LET weighted == Weighted(props)
        total_weighted_growth ==
            SumSeq([ i \in 1..Len(props) |-> weighted[i].growth ])
        total_weight ==
            SumSeq([ i \in 1..Len(props) |-> weighted[i].weight ])
    IN  IF total_weight > 0 THEN total_weighted_growth \div total_weight ELSE 0

_calculate_portfolio_yields(props, current_period) ==
    LET total_portfolio_value ==
            SumSeq([ i \in 1..Len(props) |-> props[i].current_value ])
        total_annual_rental_income      == Len(props) * annual_rental_income
        total_annual_operating_expenses == Len(props) * _calculate_annual_expenses
        total_annual_cashflow == _calculate_monthly_cashflow * 12 * Len(props)
        total_cash_invested   == _calculate_total_cash_invested(props)
        portfolio_net_rental_yield ==
            SafeRatio(total_annual_rental_income - total_annual_operating_expenses,
                      total_portfolio_value)
        portfolio_growth == portfolio_capital_growth_yield(props)
    IN  [ period |-> current_period,
          portfolio_rental_yield |->
              SafeRatio(total_annual_rental_income, total_portfolio_value),
          portfolio_net_rental_yield |-> portfolio_net_rental_yield,
          portfolio_cash_on_cash_return |->
              SafeRatio(total_annual_cashflow, total_cash_invested),
          portfolio_capital_growth_yield |-> portfolio_growth,
          portfolio_total_return_yield |->
              portfolio_net_rental_yield + portfolio_growth,
          total_annual_rental_income |-> total_annual_rental_income,
          total_annual_operating_expenses |-> total_annual_operating_expenses,
          total_annual_cashflow |-> total_annual_cashflow,
          total_portfolio_value |-> total_portfolio_value,
          total_cash_invested |-> total_cash_invested ]

(***************************************************************************)
(* _create_detailed_snapshot: the totals and the termination flag frozen   *)
(* for one period.  An Optional field is a sequence of at most one         *)
(* element: portfolio_yields is passed to the snapshot only in the yearly  *)
(* branch and keeps its default None in the monthly one.                   *)
(***************************************************************************)
_create_detailed_snapshot(props, cash, injected, period, refinancing_events, purchases, capital_injections, ended, reason) ==
    LET total_property_value ==
            SumSeq([ i \in 1..Len(props) |-> props[i].current_value ])
        total_debt ==
            SumSeq([ i \in 1..Len(props) |-> props[i].loan_amount ])
    IN  [ period |-> period, properties |-> props,
          total_property_value |-> total_property_value,
          total_debt |-> total_debt,
          total_equity |-> total_property_value - total_debt,
          cash_available |-> cash,
          monthly_cashflow |-> TotalMonthlyCashflow(props),
          annual_cashflow |-> TotalMonthlyCashflow(props) * 12,
          total_cash_invested |-> _calculate_total_cash_invested(props),
          total_additional_capital_injected |-> injected,
          refinancing_events |-> refinancing_events,
          property_purchases |-> purchases,
          capital_injections |-> capital_injections,
          property_yields |->
              _calculate_annual_yields(props, period, periods_per_year),
          portfolio_yields |->
              IF strategy.tracking_frequency = "yearly"
              THEN << _calculate_portfolio_yields(props, period) >>
              ELSE <<>>,
          simulation_ended |-> ended, end_reason |-> reason ]

(***************************************************************************)
(* _filter_snapshots_by_frequency returns its argument.                    *)
(***************************************************************************)
_filter_snapshots_by_frequency(monthly_snapshots) == monthly_snapshots

(***************************************************************************)
(* all_snapshots.append(snapshot) at the end of every iteration.           *)
(***************************************************************************)
AppendSnapshot_SkipEnded(snaps, snapshot) ==
    IF snapshot.simulation_ended THEN snaps ELSE Append(snaps, snapshot)

AppendSnapshot(snaps, snapshot) == Append(snaps, snapshot)

(***************************************************************************)
(* Guard of the monthly loop: for month in range(1, n + 1) with            *)
(* `if self.simulation_ended: break`.                                      *)
(***************************************************************************)
LoopContinues_NoBreak(current_month, total_monthly_periods, ended) ==
    current_month <= total_monthly_periods

LoopContinues_OffByOne(current_month, total_monthly_periods, ended) ==
    current_month <= total_monthly_periods + 1 /\ ~ended

LoopContinues(current_month, total_monthly_periods, ended) ==
    current_month <= total_monthly_periods /\ ~ended

(***************************************************************************)
(* The strategy configurations the runs are drawn from.                    *)
(***************************************************************************)
Trackings == {"monthly", "yearly"}

RefinancingChoices == { <<FALSE, 1000>>, <<TRUE, 250>>, <<TRUE, 1000>>, <<TRUE, 50>> }

ScenarioMonths == 2 * 12

ScenarioStrategy == create_cash_strategy(ScenarioMonths, FALSE, "monthly", <<>>)

DirectCashStrategies ==
    { [ create_cash_strategy(m, TRUE, t, inj) EXCEPT
          !.leverage_ratio = 50, !.enable_refinancing = TRUE,
          !.refinance_frequency_years = 250 ] :
        m \in Horizons, t \in Trackings, inj \in InjectionLists }

(***************************************************************************)
(* Cash-only runs over the window rules, and leveraged runs whose          *)
(* leverage_ratio is 0.0: the loan of such a property is 0 while its       *)
(* financing_type is "0%_leverage".                                        *)
(***************************************************************************)
WindowStrategies ==
    { create_cash_strategy(m, FALSE, "monthly", inj) :
        m \in Horizons, inj \in WindowInjectionLists }

ZeroLeverageStrategies ==
    { create_leveraged_strategy(m, 0, TRUE, 250, r, "monthly", <<>>) :
        m \in Horizons, r \in BOOLEAN }

Strategies ==
    { ScenarioStrategy } \cup DirectCashStrategies
    \cup WindowStrategies \cup ZeroLeverageStrategies
    \cup
    { create_cash_strategy(m, r, t, inj) :
        m \in Horizons, r \in BOOLEAN, t \in Trackings, inj \in InjectionLists }
    \cup
    { create_leveraged_strategy(m, lr, rf[1], rf[2], r, t, inj) :
        m \in Horizons, lr \in {50, 80}, rf \in RefinancingChoices,
        r \in BOOLEAN, t \in Trackings, inj \in InjectionLists }
    \cup
    { create_mixed_strategy(m, mix, 100 - mix, 50, f, rf[1], rf[2], r, t, inj) :
        m \in Horizons, mix \in {50, 70}, f \in {"cash", "leveraged"},
        rf \in { <<FALSE, 1000>>, <<TRUE, 250>> },
        r \in BOOLEAN, t \in Trackings, inj \in InjectionLists }

(***************************************************************************)
(* Mixed configurations whose property ratios do not sum to 1.0, and the   *)
(* few configurations the validation profiles are run with, and leveraged *)
(* configurations that finance the whole price.  The ratios 1.5 and -0.5   *)
(* sum to 1.0 and pass the check of create_mixed_strategy.                 *)
(***************************************************************************)
UnbalancedMixedStrategies ==
    { create_mixed_strategy(MaxMonths \div 2, mix[1], mix[2], 50, "leveraged", FALSE, 1000, TRUE, "monthly", <<>>) :
        mix \in { <<50, 30>>, <<70, 40>> } }

ProbeStrategies ==
    { create_leveraged_strategy(MaxMonths \div 2, 50, TRUE, 250, TRUE, t, <<>>) :
        t \in Trackings }
    \cup { create_cash_strategy(MaxMonths \div 2, r, "yearly", <<>>) :
             r \in BOOLEAN }
    \cup { create_leveraged_strategy(MaxMonths \div 2, 90, FALSE, 1000, TRUE, "monthly", <<>>) }

OutOfRangeMixedStrategies ==
    { create_mixed_strategy(MaxMonths \div 2, 150, 0 - 50, 50, "leveraged", FALSE, 1000, TRUE, "monthly", <<>>) }

FullLeverageStrategies ==
    { create_leveraged_strategy(MaxMonths \div 2, 100, FALSE, 1000, r, "monthly", <<>>) :
        r \in BOOLEAN }

(***************************************************************************)
(* The arguments a run is constructed from: a profile, a strategy          *)
(* configuration and the way the configuration was built.                  *)
(***************************************************************************)
Constructions ==
    { << p, s, "factory" >> :
        p \in Profiles, s \in Strategies \ DirectCashStrategies }
    \cup { << p, s, "StrategyConfig" >> :
             p \in Profiles, s \in DirectCashStrategies }
    \cup { << BaseProfile, s, b >> :
             s \in UnbalancedMixedStrategies, b \in {"factory", "StrategyConfig"} }
    \cup { << p, s, "factory" >> :
             p \in LeveragedProfiles \cup CashProfiles, s \in ProbeStrategies }
    \cup { << CostFreeProfile, s, "factory" >> : s \in FullLeverageStrategies }
    \cup { << BaseProfile, s, "factory" >> : s \in OutOfRangeMixedStrategies }

(***************************************************************************)
(* PropertyInvestment.__post_init__: the message of the ValueError it      *)
(* raises, "None" when the profile is accepted.                            *)
(***************************************************************************)
__post_init__(profile) ==
    IF profile.financing_type = "leveraged" /\ profile.interest_rate = None
    THEN "Interest rate required for leveraged financing"
    ELSE IF profile.financing_type = "leveraged" /\ profile.bond_registration = 0
    THEN "Bond registration cost should be > 0 for leveraged financing"
    ELSE IF profile.enable_refinancing /\ profile.target_refinance_ltv = None
    THEN "Target refinance LTV required when refinancing is enabled"
    ELSE "None"

(***************************************************************************)
(* The check create_mixed_strategy makes before it builds the              *)
(* configuration; StrategyConfig itself checks nothing.                    *)
(***************************************************************************)
RatiosSumToOne(strategy_config) ==
    ~(strategy_config.leveraged_property_ratio
        + strategy_config.cash_property_ratio # 100)

StrategyError(strategy_config, builder) ==
    IF builder = "factory" /\ strategy_config.strategy_type = "mixed"
         /\ ~RatiosSumToOne(strategy_config)
    THEN "Property ratios must sum to 1.0"
    ELSE "None"

(***************************************************************************)
(* The API boundary (src/back/api).  A SimulationRequest with one strategy *)
(* request: the property and operating figures not listed are those of     *)
(* BaseProfile.  strategy_type is one of the three kinds of                *)
(* StrategyTypeEnum or another string.                                     *)
(***************************************************************************)
StrategyTypeEnum == {"cash_only", "leveraged", "mixed"}

SimulationRequest(kind, ltv, interest, ratios, refinancing, capital, bond) ==
    [ purchase_price |-> BaseProfile.purchase_price,
      bond_registration |-> bond,
      monthly_rental_income |-> BaseProfile.monthly_rental_income,
      available_capital |-> capital, appreciation_rate |-> 600,
      strategy_type |-> kind, simulation_months |-> MaxMonths \div 2,
      reinvest_cashflow |-> TRUE, ltv_ratio |-> ltv,
      interest_rate |-> interest, loan_term_years |-> 20,
      enable_refinancing |-> refinancing,
      refinance_frequency |-> IF refinancing THEN "quarterly" ELSE "never",
      target_refinance_ltv |-> None,
      leveraged_property_ratio |-> ratios[1],
      cash_property_ratio |-> ratios[2], first_property_type |-> "cash" ]

Requests ==
    { SimulationRequest(kind, ltv, interest, ratios, refinancing, capital, bond) :
        kind \in StrategyTypeEnum \cup {"bogus"}, ltv \in {None, 50},
        interest \in {None, 1000}, ratios \in { <<70, 30>>, <<50, 30>> },
        refinancing \in BOOLEAN, capital \in {2000000, 500000, 0},
        bond \in {15000, 0} }

NoRequest ==
    [ SimulationRequest("cash_only", None, None, <<None, None>>, FALSE, 0, 0)
        EXCEPT !.strategy_type = "None" ]

NoProfile == [ BaseProfile EXCEPT !.financing_type = "None" ]

NoStrategy ==
    [ create_cash_strategy(0, FALSE, "monthly", <<>>)
        EXCEPT !.strategy_type = "None" ]

(***************************************************************************)
(* SimulationResponse: success, the number of strategy results, the prefix *)
(* and the detail of the error string, and the termination flag the        *)
(* summary of the result carries.                                          *)
(***************************************************************************)
SimulationResponse(success, results, error, detail, ended) ==
    [ success |-> success, results |-> results, error |-> error,
      detail |-> detail, simulation_ended |-> ended ]

NoResponse == SimulationResponse(FALSE, 0, "None", "None", FALSE)

ValidationFailed == "Validation failed"

SimulationError == "Simulation error"

(***************************************************************************)
(* validate_parameters: whether the list of errors is empty.  It has no    *)
(* check for a strategy type outside the three kinds.                      *)
(***************************************************************************)
validate_parameters(req) ==
    LET levered == req.strategy_type \in {"leveraged", "mixed"}
    IN  /\ ~(req.available_capital <= 0)
        /\ ~(req.purchase_price <= 0)
        /\ ~(req.monthly_rental_income <= 0)
        /\ levered => ~( OrDefault(req.ltv_ratio, 0) = 0
                         \/ req.ltv_ratio <= 0 \/ req.ltv_ratio >= 100 )
        /\ levered => ~( OrDefault(req.interest_rate, 0) = 0
                         \/ req.interest_rate <= 0 )
        /\ req.strategy_type = "mixed"
             => /\ ~( req.leveraged_property_ratio = None
                      \/ req.cash_property_ratio = None )
                /\ ~( req.leveraged_property_ratio + req.cash_property_ratio
                        # 100 )

convert_refinance_frequency_to_years(req) ==
    IF ~req.enable_refinancing THEN 1000
    ELSE CASE req.refinance_frequency = "annually" -> 1000
           [] req.refinance_frequency = "bi_annually" -> 500
           [] req.refinance_frequency = "quarterly" -> 250
           [] OTHER -> 1000

(***************************************************************************)
(* create_strategy_config: the configuration of the three kinds; any other *)
(* strategy type raises ValueError("Unknown strategy type: ...").          *)
(***************************************************************************)
UnknownStrategyType(req) == req.strategy_type \notin StrategyTypeEnum

create_strategy_config(req, capital_injections) ==
    CASE req.strategy_type = "cash_only" ->
           create_cash_strategy(req.simulation_months, req.reinvest_cashflow, "monthly", capital_injections)
      [] req.strategy_type = "leveraged" ->
           create_leveraged_strategy(req.simulation_months, req.ltv_ratio, req.enable_refinancing, convert_refinance_frequency_to_years(req), req.reinvest_cashflow, "monthly", capital_injections)
      [] req.strategy_type = "mixed" ->
           create_mixed_strategy(req.simulation_months, req.leveraged_property_ratio, req.cash_property_ratio, req.ltv_ratio, IF req.first_property_type = "cash" THEN "cash" ELSE "leveraged", req.enable_refinancing, convert_refinance_frequency_to_years(req), req.reinvest_cashflow, "monthly", capital_injections)
      [] OTHER -> NoStrategy

(***************************************************************************)
(* create_property_investment, and the overrides simulate_strategies       *)
(* assigns to the profile once it is built.                                *)
(***************************************************************************)
create_property_investment(req, strategy_config) ==
    LET cash == strategy_config.strategy_type = "cash_only"
    IN  [ BaseProfile EXCEPT
            !.purchase_price = req.purchase_price,
            !.bond_registration = req.bond_registration,
            !.monthly_rental_income = req.monthly_rental_income,
            !.financing_type = IF cash THEN "cash" ELSE "leveraged",
            !.ltv_ratio = IF cash THEN 0 ELSE strategy_config.leverage_ratio,
            !.appreciation_rate = req.appreciation_rate,
            !.interest_rate = IF cash THEN None ELSE 1000,
            !.loan_term_years = 20,
            !.available_investment_amount = req.available_capital,
            !.enable_refinancing = strategy_config.enable_refinancing,
            !.target_refinance_ltv = 60 ]

Overridden(profile, req) ==
    [ profile EXCEPT
        !.appreciation_rate = req.appreciation_rate,
        !.interest_rate = OrDefault(req.interest_rate, profile.interest_rate),
        !.loan_term_years = OrDefault(req.loan_term_years, profile.loan_term_years),
        !.target_refinance_ltv =
            OrDefault(req.target_refinance_ltv, profile.target_refinance_ltv) ]

(***************************************************************************)
(* The fields PropertyPortfolioSimulator.__init__ sets, before the         *)
(* arguments it is given have been built: by a caller of the library, or   *)
(* from a request by the API.                                              *)
(***************************************************************************)
Init ==
    /\ \/ \E c \in Constructions :
             /\ base_property = c[1]
             /\ strategy = c[2]
             /\ built_with = c[3]
             /\ request = NoRequest
             /\ pc = "new"
       \/ /\ request \in Requests
          /\ base_property = NoProfile
          /\ strategy = NoStrategy
          /\ built_with = "factory"
          /\ pc = "request"
    /\ response = NoResponse
    /\ raised = "None"
    /\ month = 0
    /\ properties = <<>>
    /\ cash_available = 0
    /\ property_counter = 0
    /\ total_additional_capital_injected = 0
    /\ total_additional_capital = 0
    /\ simulation_ended = FALSE
    /\ end_reason = NoReason
    /\ all_snapshots = <<>>
    /\ snapshots = <<>>
    /\ calls = 0

(***************************************************************************)
(* Construction of the arguments and of the simulator: the strategy        *)
(* configuration (by create_mixed_strategy with its ratio check, or        *)
(* unchecked), then PropertyInvestment with __post_init__.  A ValueError   *)
(* leaves the caller without a simulator.                                  *)
(***************************************************************************)
Construct ==
    /\ pc = "new"
    /\ raised' = IF StrategyError(strategy, built_with) # "None"
                 THEN StrategyError(strategy, built_with)
                 ELSE __post_init__(base_property)
    /\ pc' = IF raised' = "None" THEN "start" ELSE "rejected"
    /\ UNCHANGED << base_property, strategy, month, properties, cash_available,
                    property_counter, total_additional_capital_injected,
                    total_additional_capital, simulation_ended, end_reason,
                    all_snapshots, snapshots, calls, built_with, request,
                    response >>

(***************************************************************************)
(* simulate_strategies up to the call of simulate(): validation, then the  *)
(* translation of the strategy request and of the profile.  A failed       *)
(* validation returns "Validation failed: ..."; an exception raised by the *)
(* translation is caught by `except Exception` and returned as             *)
(* "Simulation error: ...".                                                *)
(***************************************************************************)
simulate_strategies ==
    /\ pc = "request"
    /\ LET strategy_config     == create_strategy_config(request, <<>>)
           property_investment == create_property_investment(request, strategy_config)
           error ==
               IF ~validate_parameters(request) THEN ValidationFailed
               ELSE IF UnknownStrategyType(request)
                       \/ StrategyError(strategy_config, "factory") # "None"
                       \/ __post_init__(property_investment) # "None"
                    THEN SimulationError
                    ELSE "None"
           detail ==
               IF ~validate_parameters(request) THEN "None"
               ELSE IF UnknownStrategyType(request) THEN "Unknown strategy type"
               ELSE IF StrategyError(strategy_config, "factory") # "None"
                    THEN StrategyError(strategy_config, "factory")
                    ELSE __post_init__(property_investment)
       IN  IF error # "None"
           THEN /\ response' = SimulationResponse(FALSE, 0, error, detail, FALSE)
                /\ raised' = detail
                /\ pc' = "responded"
                /\ UNCHANGED << base_property, strategy >>
           ELSE /\ base_property' = Overridden(property_investment, request)
                /\ strategy' = strategy_config
                /\ pc' = "start"
                /\ UNCHANGED << response, raised >>
    /\ UNCHANGED << month, properties, cash_available, property_counter,
                    total_additional_capital_injected, total_additional_capital,
                    simulation_ended, end_reason, all_snapshots, snapshots,
                    calls, built_with, request >>

(***************************************************************************)
(* simulate_strategies after simulate() has returned or raised: the        *)
(* result of the strategy with the termination flag of its last snapshot,  *)
(* or "Simulation error: ..." for the exception.                           *)
(***************************************************************************)
respond ==
    /\ request # NoRequest
    /\ pc \in {"done", "fault"}
    /\ response' =
         IF pc = "done"
         THEN SimulationResponse(TRUE, 1, "None", "None",
                                 snapshots[Len(snapshots)].simulation_ended)
         ELSE SimulationResponse(FALSE, 0, SimulationError,
                                 "integer division or modulo by zero", FALSE)
    /\ pc' = "responded"
    /\ UNCHANGED << base_property, strategy, month, properties, cash_available,
                    property_counter, total_additional_capital_injected,
                    total_additional_capital, simulation_ended, end_reason,
                    all_snapshots, snapshots, calls, built_with, raised,
                    request >>

(***************************************************************************)
(* The initial purchase event: one event for the first property when the   *)
(* portfolio holds one, none otherwise.                                    *)
(***************************************************************************)
initial_purchase_events_None(props, cash_required) == <<>>

initial_purchase_events(props, cash_required) ==
    IF Len(props) > 0
    THEN << PropertyPurchase(props[1].property_id, props[1].purchase_price,
                             cash_required, props[1].financing_type,
                             props[1].loan_amount) >>
    ELSE <<>>

(***************************************************************************)
(* _run_monthly_simulation up to the loop: _initialize_portfolio, the      *)
(* initial purchase event and the period-0 snapshot.                       *)
(***************************************************************************)
Initialize ==
    /\ pc = "start"
    /\ LET available_cash == base_property.available_investment_amount
           cash_required  == FirstCashRequired
           label          == IF FirstPropertyLeveraged
                             THEN LeverageLabel(strategy.leverage_ratio)
                             ELSE CashLabel
           first_property == PropertyData(0, base_property.purchase_price,
                                          FirstLoanAmount,
                                          _calculate_monthly_payment(FirstLoanAmount),
                                          label, cash_required)
       IN  IF CanAffordFirst(available_cash, cash_required)
           THEN /\ properties' = << first_property >>
                /\ cash_available' = available_cash - cash_required
                /\ property_counter' = 1
                /\ UNCHANGED << simulation_ended, end_reason >>
                /\ all_snapshots' =
                     << _create_detailed_snapshot(
                            properties', cash_available', 0, 0, <<>>,
                            initial_purchase_events(properties', cash_required),
                            <<>>, simulation_ended, end_reason) >>
           ELSE /\ properties' = <<>>
                /\ cash_available' = available_cash
                /\ property_counter' = 0
                /\ simulation_ended' = TRUE
                /\ end_reason' = FirstPropertyReason(cash_required, available_cash)
                /\ all_snapshots' =
                     << _create_detailed_snapshot(
                            <<>>, available_cash, 0, 0, <<>>,
                            initial_purchase_events(<<>>, cash_required), <<>>,
                            TRUE, end_reason') >>
    /\ month' = 1
    /\ pc' = "loop"
    /\ UNCHANGED << base_property, strategy, total_additional_capital_injected,
                    total_additional_capital, snapshots, calls, boundary >>

(***************************************************************************)
(* One iteration of the monthly loop up to the cash-sufficiency check.     *)
(***************************************************************************)
MonthUpToCheck_CheckBeforeInjection ==
    LET props    == _apply_monthly_operations(_apply_appreciation(properties))
        events   == _apply_additional_capital_injections(month,
                                                         total_additional_capital)
        cash     == cash_available + TotalMonthlyCashflow(props)
                      + InjectedAmount(events)
        deficit  == _calculate_monthly_operating_deficit(props)
    IN  [ properties |-> props, capital_injections |-> events,
          cash_available |-> cash, deficit |-> deficit,
          ended |-> CashInsufficient(deficit, cash - InjectedAmount(events)) ]

MonthUpToCheck ==
    LET props    == _apply_monthly_operations(_apply_appreciation(properties))
        events   == _apply_additional_capital_injections(month,
                                                         total_additional_capital)
        cash     == cash_available + TotalMonthlyCashflow(props)
                      + InjectedAmount(events)
        deficit  == _calculate_monthly_operating_deficit(props)
    IN  [ properties |-> props, capital_injections |-> events,
          cash_available |-> cash, deficit |-> deficit,
          ended |-> CashInsufficient(deficit, cash) ]

(***************************************************************************)
(* The guard of the two steps after the cash check: the step is enabled    *)
(* in the configuration `and not self.simulation_ended`.                   *)
(***************************************************************************)
StepApplies_IgnoringEnd(enabled, ended) == enabled

StepApplies(enabled, ended) == enabled /\ ~ended

InjectedAfter(events) ==
    IF events = <<>> THEN total_additional_capital_injected
    ELSE events[Len(events)].total_additional_capital_to_date

(***************************************************************************)
(* The refinancing step of the iteration: applied when it is enabled and   *)
(* the month is a refinancing month.                                       *)
(***************************************************************************)
MonthRefinancing(checked, refi_on) ==
    IF refi_on /\ _should_refinance(month)
    THEN _apply_refinancing(checked.properties)
    ELSE [ properties |-> checked.properties,
           cash_extracted |-> 0, events |-> <<>> ]

(***************************************************************************)
(* One iteration of the monthly loop of _run_monthly_simulation.           *)
(***************************************************************************)
StepMonth ==
    /\ pc = "loop"
    /\ LoopContinues(month, strategy.simulation_months, simulation_ended)
    /\ LET checked == MonthUpToCheck
           ended   == simulation_ended \/ checked.ended
           refi_on == StepApplies(strategy.enable_refinancing, ended)
       IN  /\ refi_on => refinance_frequency_months # 0
           /\ LET refinanced == MonthRefinancing(checked, refi_on)
                  cash_after == checked.cash_available + refinanced.cash_extracted
                  reinvest   == StepApplies(strategy.enable_reinvestment, ended)
                  bought ==
                      IF reinvest
                      THEN _apply_reinvestment(refinanced.properties, cash_after,
                                               property_counter)
                      ELSE [ properties |-> refinanced.properties,
                             cash_available |-> cash_after,
                             property_counter |-> property_counter,
                             purchases |-> <<>> ]
              IN  /\ reinvest => ~ReinvestmentDiverges(refinanced.properties,
                                                       cash_after, property_counter)
                  /\ properties' = bought.properties
                  /\ cash_available' = bought.cash_available
                  /\ property_counter' = bought.property_counter
                  /\ total_additional_capital' =
                       total_additional_capital
                         + InjectedAmount(checked.capital_injections)
                  /\ total_additional_capital_injected' =
                       InjectedAfter(checked.capital_injections)
                  /\ simulation_ended' = ended
                  /\ end_reason' =
                       IF checked.ended
                       THEN DeficitReason(checked.deficit, checked.cash_available)
                       ELSE end_reason
                  /\ all_snapshots' =
                       AppendSnapshot(all_snapshots,
                              _create_detailed_snapshot(
                                  properties', cash_available',
                                  total_additional_capital_injected', month,
                                  refinanced.events, bought.purchases,
                                  checked.capital_injections,
                                  simulation_ended', end_reason'))
    /\ month' = month + 1
    /\ UNCHANGED << base_property, strategy, pc, snapshots, calls, boundary >>

(***************************************************************************)
(* The iteration in which _should_refinance divides by a zero interval:    *)
(* the ZeroDivisionError leaves simulate() without a result.               *)
(***************************************************************************)
RefinanceFault ==
    /\ pc = "loop"
    /\ LoopContinues(month, strategy.simulation_months, simulation_ended)
    /\ LET checked == MonthUpToCheck
       IN  /\ StepApplies(strategy.enable_refinancing,
                          simulation_ended \/ checked.ended)
           /\ refinance_frequency_months = 0
           /\ total_additional_capital' =
                total_additional_capital
                  + InjectedAmount(checked.capital_injections)
    /\ pc' = "fault"
    /\ UNCHANGED << base_property, strategy, month, properties, cash_available,
                    property_counter, total_additional_capital_injected,
                    simulation_ended, end_reason, all_snapshots, snapshots,
                    calls, boundary >>

(***************************************************************************)
(* The iteration in which the loop of _apply_reinvestment never exits:     *)
(* simulate() does not return.                                             *)
(***************************************************************************)
ReinvestmentHangs ==
    /\ pc = "loop"
    /\ LoopContinues(month, strategy.simulation_months, simulation_ended)
    /\ LET checked == MonthUpToCheck
           ended   == simulation_ended \/ checked.ended
           refi_on == StepApplies(strategy.enable_refinancing, ended)
       IN  /\ refi_on => refinance_frequency_months # 0
           /\ StepApplies(strategy.enable_reinvestment, ended)
           /\ LET refinanced == MonthRefinancing(checked, refi_on)
              IN  ReinvestmentDiverges(refinanced.properties,
                                       checked.cash_available
                                         + refinanced.cash_extracted,
                                       property_counter)
           /\ total_additional_capital' =
                total_additional_capital
                  + InjectedAmount(checked.capital_injections)
    /\ pc' = "hung"
    /\ UNCHANGED << base_property, strategy, month, properties, cash_available,
                    property_counter, total_additional_capital_injected,
                    simulation_ended, end_reason, all_snapshots, snapshots,
                    calls, boundary >>

(***************************************************************************)
(* simulate: the loop is over; filter, store and return the snapshots.     *)
(***************************************************************************)
Return ==
    /\ pc = "loop"
    /\ ~LoopContinues(month, strategy.simulation_months, simulation_ended)
    /\ snapshots' = _filter_snapshots_by_frequency(all_snapshots)
    /\ pc' = "done"
    /\ calls' = calls + 1
    /\ UNCHANGED << base_property, strategy, month, properties, cash_available,
                    property_counter, total_additional_capital_injected,
                    total_additional_capital, simulation_ended, end_reason,
                    all_snapshots, boundary >>

(***************************************************************************)
(* simulate() called again on the same simulator: the portfolio and the    *)
(* snapshot list are locals of the new call and start afresh, while        *)
(* self.simulation_ended, self.end_reason and self.total_additional_capital*)
(* are set in __init__ only and keep the values the last call left.        *)
(***************************************************************************)
simulate ==
    /\ pc = "done"
    /\ request = NoRequest
    /\ calls < MaxCalls
    /\ pc' = "start"
    /\ month' = 0
    /\ properties' = <<>>
    /\ cash_available' = 0
    /\ property_counter' = 0
    /\ total_additional_capital_injected' = 0
    /\ all_snapshots' = <<>>
    /\ UNCHANGED << base_property, strategy, total_additional_capital,
                    simulation_ended, end_reason, snapshots, calls, boundary >>

Next ==
    \/ Construct \/ simulate_strategies
    \/ Initialize \/ StepMonth \/ RefinanceFault \/ ReinvestmentHangs \/ Return
    \/ simulate \/ respond

Spec == Init /\ [][Next]_vars

(***************************************************************************)
(* Properties of the engine.                                               *)
(***************************************************************************)
DeficitKind == "Insufficient cash to cover monthly operating deficit"

FirstPropertyKind == "Insufficient cash to buy first property"

Last(seq) == seq[Len(seq)]

FlagPermanent(snaps) ==
    \A i \in 1..Len(snaps) : \A j \in i..Len(snaps) :
        snaps[i].simulation_ended =>
            /\ snaps[j].simulation_ended
            /\ snaps[j].end_reason = snaps[i].end_reason

\* C1: once a snapshot of a run carries the termination flag, every later
\* snapshot of that run carries the flag too, with the same reason.
C1_TerminationPermanent ==
    FlagPermanent(all_snapshots) /\ FlagPermanent(snapshots)

C1_Witness ==
    /\ pc = "loop"
    /\ Len(all_snapshots) >= 3
    /\ Last(all_snapshots).simulation_ended
    /\ Last(all_snapshots).end_reason.kind = DeficitKind

\* C2: when the cash-sufficiency check of period p fails, the snapshot of
\* period p is still appended, carrying the flag and the shortfall reason,
\* the loop does not advance any further, and the flagged snapshot is the
\* last one of the returned sequence.
C2_FlaggedSnapshotIsLast ==
    [][ /\ ( /\ pc = "loop"
             /\ LoopContinues(month, strategy.simulation_months, simulation_ended)
             /\ MonthUpToCheck.ended )
          => /\ Len(all_snapshots') = Len(all_snapshots) + 1
             /\ Last(all_snapshots').period = month
             /\ Last(all_snapshots').simulation_ended
             /\ Last(all_snapshots').end_reason
                  = DeficitReason(MonthUpToCheck.deficit,
                                  MonthUpToCheck.cash_available)
             /\ ~LoopContinues(month', strategy'.simulation_months,
                               simulation_ended')
        /\ ( pc = "loop" /\ pc' = "done" /\ end_reason.kind = DeficitKind )
          => /\ Last(snapshots').simulation_ended
             /\ Last(snapshots').end_reason = end_reason
             /\ Last(snapshots').period = month - 1
      ]_vars

C2_Witness ==
    /\ pc = "done"
    /\ Len(snapshots) >= 2
    /\ Last(snapshots).simulation_ended
    /\ Last(snapshots).end_reason.kind = DeficitKind
    /\ Last(snapshots).period < strategy.simulation_months

\* C3: when the available capital is below the cash required for the first
\* property, the ledger stays empty, the run is flagged terminated for the
\* first property at once, the period-0 snapshot is produced empty with
\* that flag, no fault occurs and no later period is simulated.
C3_InsufficientFirstProperty ==
    ( pc \in {"loop", "done", "fault"}
      /\ base_property.available_investment_amount < FirstCashRequired )
    => /\ pc # "fault"
       /\ properties = <<>>
       /\ simulation_ended
       /\ end_reason.kind = FirstPropertyKind
       /\ Len(all_snapshots) = 1
       /\ all_snapshots[1].period = 0
       /\ all_snapshots[1].properties = <<>>
       /\ all_snapshots[1].total_property_value = 0
       /\ all_snapshots[1].property_purchases = <<>>
       /\ all_snapshots[1].simulation_ended
       /\ all_snapshots[1].end_reason.kind = FirstPropertyKind
       /\ pc = "done" => snapshots = all_snapshots

C3_Witness ==
    /\ pc = "done"
    /\ base_property.available_investment_amount < FirstCashRequired
    /\ strategy.simulation_months > 0
    /\ Len(snapshots) = 1

(***************************************************************************)
(* The end-to-end scenario: price 1,000,000, cash financing, rent 12,000,  *)
(* vacancy 5%, no injections, 24 months cash-only without reinvestment.    *)
(***************************************************************************)
IsScenario ==
    /\ strategy = ScenarioStrategy
    /\ base_property.purchase_price = 1000000
    /\ base_property.financing_type = "cash"
    /\ base_property.monthly_rental_income = 12000
    /\ base_property.vacancy_rate = 5

PeriodsAreIndices(snaps) ==
    \A i \in 1..Len(snaps) : snaps[i].period = i - 1

C4_Original ==
    ( pc = "done" /\ IsScenario
      /\ base_property.available_investment_amount = 500000 )
    => Len(snapshots) = 25 /\ PeriodsAreIndices(snapshots)

\* C4: in the scenario the capital of 500,000 does not cover the first
\* property, so the run returns exactly one snapshot, period 0, flagged
\* terminated; with a capital that covers the first property and no failed
\* cash check it returns exactly 25 snapshots with periods 0..24.
C4_Amended ==
    ( pc = "done" /\ IsScenario )
    => /\ base_property.available_investment_amount = 500000
          => /\ Len(snapshots) = 1
             /\ snapshots[1].period = 0
             /\ snapshots[1].simulation_ended
       /\ ( /\ base_property.available_investment_amount
                 >= base_property.purchase_price + base_property.transfer_duty
                      + base_property.conveyancing_fees
                      + base_property.bond_registration
                      + base_property.furnishing_cost
            /\ ~Last(snapshots).simulation_ended )
          => Len(snapshots) = 25 /\ PeriodsAreIndices(snapshots)

C4_Witness ==
    /\ pc = "done"
    /\ IsScenario
    /\ base_property.available_investment_amount = 500000
    /\ Len(snapshots) = 1

\* C5: every snapshot of a cash-only run has total debt 0 and total equity
\* equal to total property value.
C5_CashOnlyNoDebt ==
    strategy.strategy_type = "cash_only"
    => \A i \in 1..Len(all_snapshots) :
         /\ all_snapshots[i].total_debt = 0
         /\ all_snapshots[i].total_equity = all_snapshots[i].total_property_value
         /\ \A k \in 1..Len(all_snapshots[i].properties) :
              all_snapshots[i].properties[k].loan_amount = 0

C5_Witness ==
    /\ pc = "done"
    /\ strategy.strategy_type = "cash_only"
    /\ strategy.leverage_ratio > 0
    /\ Len(Last(snapshots).properties) >= 2
    /\ Last(snapshots).total_property_value > 0

\* C6: a run over H periods returns at most H+1 snapshots; under monthly
\* tracking the snapshot at index i has period i, and a run that does not
\* terminate returns exactly H+1 snapshots, periods 0..H.
C6_SnapshotCount ==
    /\ Len(all_snapshots) <= strategy.simulation_months + 1
    /\ pc = "done"
       => /\ Len(snapshots) <= strategy.simulation_months + 1
          /\ strategy.tracking_frequency = "monthly"
             => /\ PeriodsAreIndices(snapshots)
                /\ ~Last(snapshots).simulation_ended
                   => Len(snapshots) = strategy.simulation_months + 1

C6_Witness ==
    /\ pc = "done"
    /\ strategy.tracking_frequency = "monthly"
    /\ strategy.simulation_months >= 2
    /\ ~Last(snapshots).simulation_ended
    /\ Len(snapshots) = strategy.simulation_months + 1

\* C7: under yearly tracking the returned sequence holds only snapshots
\* whose period is a multiple of 12.
C7_YearlyBoundariesOnly ==
    ( pc = "done" /\ strategy.tracking_frequency = "yearly" )
    => \A i \in 1..Len(snapshots) : snapshots[i].period % 12 = 0

\* C8: for a mixed strategy with a non-empty ledger the next acquisition
\* is leveraged when the leveraged fraction is further below its target
\* than the cash fraction is below its own, and also when the two deficits
\* are equal.
C8_TieResolvesToLeverage ==
    ( pc = "loop" /\ strategy.strategy_type = "mixed" /\ Len(properties) > 0 )
    => ( _should_use_leverage_for_next_property(properties)
           <=> LeverageDeficit(properties) >= CashDeficit(properties) )

(***************************************************************************)
(* The period a refinancing of a property is measured from: its last       *)
(* refinancing before period p, or else its purchase.                      *)
(***************************************************************************)
RefinancePeriods(id, p) ==
    { all_snapshots[i].period : i \in
        { j \in 1..Len(all_snapshots) :
            /\ all_snapshots[j].period < p
            /\ \E k \in 1..Len(all_snapshots[j].refinancing_events) :
                 all_snapshots[j].refinancing_events[k].property_id = id } }

PurchasePeriods(id) ==
    { all_snapshots[i].period : i \in
        { j \in 1..Len(all_snapshots) :
            \E k \in 1..Len(all_snapshots[j].property_purchases) :
                all_snapshots[j].property_purchases[k].property_id = id } }

SetMax(S) == CHOOSE x \in S : \A y \in S : y <= x

ReferencePeriod(id, p) ==
    IF RefinancePeriods(id, p) # {} THEN SetMax(RefinancePeriods(id, p))
    ELSE SetMax(PurchasePeriods(id))

\* C9: a refinancing of a property fires in period p only when p minus the
\* property's last refinance period (or its purchase period) is at least
\* the refinancing cadence in periods.
C9_PerPropertyCadence ==
    \A i \in 1..Len(all_snapshots) :
      \A k \in 1..Len(all_snapshots[i].refinancing_events) :
        all_snapshots[i].period
          - ReferencePeriod(all_snapshots[i].refinancing_events[k].property_id,
                            all_snapshots[i].period)
          >= refinance_frequency_months

\* C10: every recorded refinancing raises the loan: cash extracted is not
\* negative, the new loan is not below the old one, and the loan balance
\* of the property after the step is the new loan.
C10_RefinancingNeverReduces ==
    \A i \in 1..Len(all_snapshots) :
      \A k \in 1..Len(all_snapshots[i].refinancing_events) :
        LET event == all_snapshots[i].refinancing_events[k]
        IN  /\ event.cash_extracted >= 0
            /\ event.new_loan_amount >= event.old_loan_amount
            /\ all_snapshots[i].properties[event.property_id + 1].loan_amount
                 >= event.old_loan_amount

C10_Witness ==
    /\ pc = "done"
    /\ \E i \in 1..Len(snapshots) :
         \E k \in 1..Len(snapshots[i].refinancing_events) :
             snapshots[i].refinancing_events[k].cash_extracted > MinExtraction

\* C11: no refinancing event is recorded for a property whose loan balance
\* is 0 at the time refinancing is applied: every recorded event has a
\* positive old loan amount.
C11_ZeroDebtSkipped ==
    \A i \in 1..Len(all_snapshots) :
      \A k \in 1..Len(all_snapshots[i].refinancing_events) :
        all_snapshots[i].refinancing_events[k].old_loan_amount > 0

(***************************************************************************)
(* The loan balances of the properties two consecutive snapshots share,    *)
(* and whether the later snapshot records a refinancing of the property.   *)
(***************************************************************************)
IsRefinancedIn(snapshot, id) ==
    \E k \in 1..Len(snapshot.refinancing_events) :
        snapshot.refinancing_events[k].property_id = id

LoansNotNegative(snaps) ==
    \A i \in 1..Len(snaps) : \A k \in 1..Len(snaps[i].properties) :
        snaps[i].properties[k].loan_amount >= 0

C12_Original ==
    /\ LoansNotNegative(all_snapshots)
    /\ \A i \in 1..(Len(all_snapshots) - 1) :
         \A k \in 1..Len(all_snapshots[i].properties) :
           ~IsCash(all_snapshots[i].properties[k].financing_type)
           => all_snapshots[i + 1].properties[k].loan_amount
                <= all_snapshots[i].properties[k].loan_amount

\* C12: the loan balance of a leveraged property never goes below 0, and
\* from one snapshot to the next it does not increase unless the later
\* snapshot records a refinancing of that property, in which case the
\* balance is the new loan of the refinancing event.
C12_Amended ==
    /\ LoansNotNegative(all_snapshots)
    /\ \A i \in 1..(Len(all_snapshots) - 1) :
         \A k \in 1..Len(all_snapshots[i].properties) :
           ~IsCash(all_snapshots[i].properties[k].financing_type)
           => IF IsRefinancedIn(all_snapshots[i + 1], k - 1)
              THEN \E e \in 1..Len(all_snapshots[i + 1].refinancing_events) :
                     LET event == all_snapshots[i + 1].refinancing_events[e]
                     IN  /\ event.property_id = k - 1
                         /\ all_snapshots[i + 1].properties[k].loan_amount
                              = event.new_loan_amount
              ELSE all_snapshots[i + 1].properties[k].loan_amount
                     <= all_snapshots[i].properties[k].loan_amount

C12_Witness ==
    /\ pc = "done"
    /\ \E i \in 1..(Len(snapshots) - 2) :
         \E k \in 1..Len(snapshots[i].properties) :
           /\ snapshots[i].properties[k].loan_amount > 0
           /\ snapshots[i + 1].properties[k].loan_amount
                < snapshots[i].properties[k].loan_amount
           /\ IsRefinancedIn(snapshots[i + 2], k - 1)
           /\ snapshots[i + 2].properties[k].loan_amount
                > snapshots[i + 1].properties[k].loan_amount

(***************************************************************************)
(* The rules of the run, the window of a rule as the rule states it, and   *)
(* the events of a snapshot that come from a rule: an event carries the    *)
(* amount of its rule and the rule's cadence as its source.                *)
(***************************************************************************)
Rules == strategy.additional_capital_injections

InWindow(rule, p) ==
    /\ p >= rule.start_period
    /\ rule.end_period = None \/ p <= rule.end_period

EventsOf(rule, snapshot) ==
    { k \in 1..Len(snapshot.capital_injections) :
        /\ snapshot.capital_injections[k].source = rule.frequency
        /\ snapshot.capital_injections[k].amount = rule.amount }

FiredIn(rule, snapshot) == EventsOf(rule, snapshot) # {}

\* C13: an injection event of a rule is emitted in period p only if p is
\* at or after the rule's start period and the rule's end period is null
\* or p is at or before it.
C13_FiresOnlyInWindow ==
    \A i \in 1..Len(all_snapshots) : \A r \in 1..Len(Rules) :
        FiredIn(Rules[r], all_snapshots[i])
        => InWindow(Rules[r], all_snapshots[i].period)

Interval(frequency) ==
    CASE frequency = "monthly"     -> 1
      [] frequency = "quarterly"   -> 3
      [] frequency = "yearly"      -> 12
      [] frequency = "five_yearly" -> 60

\* C14: in every simulated period p a recurring rule (monthly, quarterly,
\* yearly, five-yearly) emits an event exactly when p is inside the rule's
\* window and (p - start) mod interval = 0, the interval being 1, 3, 12
\* and 60 periods.
C14_RecurringCadence ==
    \A i \in 2..Len(all_snapshots) : \A r \in 1..Len(Rules) :
        Rules[r].frequency # "one_time"
        => ( FiredIn(Rules[r], all_snapshots[i])
             <=> /\ InWindow(Rules[r], all_snapshots[i].period)
                 /\ (all_snapshots[i].period - Rules[r].start_period)
                      % Interval(Rules[r].frequency) = 0 )

(***************************************************************************)
(* The periods of a run in which a rule fired, and the periods a one-time  *)
(* rule is set to fire in: its trigger set, or its start period.           *)
(***************************************************************************)
FiringPeriods(rule, snaps) ==
    { snaps[i].period : i \in { j \in 1..Len(snaps) : FiredIn(rule, snaps[j]) } }

TriggerPeriods(rule) ==
    IF rule.specific_periods # {} THEN rule.specific_periods
    ELSE { rule.start_period }

C15_Original ==
    pc = "done"
    => \A r \in 1..Len(Rules) :
         Rules[r].frequency = "one_time"
         => /\ Cardinality(FiringPeriods(Rules[r], snapshots)) = 1
            /\ FiringPeriods(Rules[r], snapshots) \subseteq TriggerPeriods(Rules[r])

\* C15: a one-time rule fires only in periods of its trigger set (its start
\* period if it has none) that are not before its start period, at most
\* once in a period, and it fires in every such period the run simulates
\* that is not after its end period; so it fires once per such period, and
\* not at all when the run simulates none of them.
C15_Amended ==
    \A r \in 1..Len(Rules) :
      Rules[r].frequency = "one_time"
      => /\ \A i \in 1..Len(all_snapshots) :
              /\ Cardinality(EventsOf(Rules[r], all_snapshots[i])) <= 1
              /\ FiredIn(Rules[r], all_snapshots[i])
                 => /\ all_snapshots[i].period \in TriggerPeriods(Rules[r])
                    /\ all_snapshots[i].period >= Rules[r].start_period
         /\ \A i \in 2..Len(all_snapshots) :
              ( /\ all_snapshots[i].period \in TriggerPeriods(Rules[r])
                /\ InWindow(Rules[r], all_snapshots[i].period) )
              => FiredIn(Rules[r], all_snapshots[i])

C15_Witness ==
    /\ pc = "done"
    /\ \E r \in 1..Len(Rules) :
         /\ Rules[r].frequency = "one_time"
         /\ Rules[r].specific_periods # {}
         /\ Cardinality(FiringPeriods(Rules[r], snapshots)) = 2

(***************************************************************************)
(* A one-time rule with trigger periods 3 and 7 whose window holds both,   *)
(* and the periods a sequence of snapshots covers.                         *)
(***************************************************************************)
IsThreeSevenRule(rule) ==
    /\ rule.frequency = "one_time"
    /\ rule.specific_periods = {3, 7}
    /\ rule.start_period <= 3
    /\ rule.end_period = None

PeriodsOf(snaps) == { snaps[i].period : i \in 1..Len(snaps) }

C16_Original ==
    pc = "done"
    => \A r \in 1..Len(Rules) :
         IsThreeSevenRule(Rules[r])
         => FiringPeriods(Rules[r], snapshots) = {3, 7}

\* C16: a one-time rule with trigger periods 3 and 7 fires in no other
\* period and fires in each of the two that the run simulates: twice when
\* the run reaches period 7, once when it ends in periods 3 to 6, and not
\* at all when the horizon or a termination ends it before period 3.
C16_Amended ==
    \A r \in 1..Len(Rules) :
      IsThreeSevenRule(Rules[r])
      => /\ FiringPeriods(Rules[r], all_snapshots)
              = {3, 7} \cap PeriodsOf(all_snapshots)
         /\ pc = "done"
            => /\ FiringPeriods(Rules[r], snapshots) = {3, 7} \cap PeriodsOf(snapshots)
               /\ Last(snapshots).period >= 7
                  => Cardinality(FiringPeriods(Rules[r], snapshots)) = 2
               /\ Last(snapshots).period < 3
                  => FiringPeriods(Rules[r], snapshots) = {}

C16_Witness ==
    /\ pc = "done"
    /\ strategy.simulation_months >= 7
    /\ \E r \in 1..Len(Rules) :
         /\ IsThreeSevenRule(Rules[r])
         /\ FiringPeriods(Rules[r], snapshots) = {3, 7}

(***************************************************************************)
(* The rules that fire in a period, and the injection events of a run up   *)
(* to its snapshot i.                                                      *)
(***************************************************************************)
FiringRules(p) ==
    { r \in 1..Len(Rules) : _should_inject_capital(Rules[r], p) }

FiringAmount(p) ==
    SumSeq([ r \in 1..Len(Rules) |->
               IF r \in FiringRules(p) THEN Rules[r].amount ELSE 0 ])

EventsSoFar(snaps, i) ==
    SumSeq([ j \in 1..i |-> InjectedAmount(snaps[j].capital_injections) ])

\* C17: the snapshot of every simulated period carries one event per rule
\* that fires in it, its cumulative-injected total exceeds that of the
\* snapshot before by the sum of the amounts of those rules, and in every
\* snapshot the cumulative total is the sum of the amounts of all the
\* injection events of the run up to that snapshot.
C17_CumulativeIsEventSum ==
    /\ \A i \in 2..Len(all_snapshots) :
         /\ Len(all_snapshots[i].capital_injections)
              = Cardinality(FiringRules(all_snapshots[i].period))
         /\ InjectedAmount(all_snapshots[i].capital_injections)
              = FiringAmount(all_snapshots[i].period)
         /\ all_snapshots[i].total_additional_capital_injected
              = all_snapshots[i - 1].total_additional_capital_injected
                  + FiringAmount(all_snapshots[i].period)
    /\ \A i \in 1..Len(all_snapshots) :
         all_snapshots[i].total_additional_capital_injected
           = EventsSoFar(all_snapshots, i)

\* C18: under yearly tracking every snapshot carries yield data (portfolio
\* yields, and yields of each of its properties); under monthly tracking a
\* snapshot that holds properties carries per-property yield data exactly
\* when its period is a multiple of 12.
C18_YieldsAtBoundaries ==
    \A i \in 1..Len(all_snapshots) :
      LET snapshot == all_snapshots[i]
      IN  IF strategy.tracking_frequency = "yearly"
          THEN /\ snapshot.portfolio_yields # <<>>
               /\ Len(snapshot.property_yields) = Len(snapshot.properties)
          ELSE snapshot.properties # <<>>
               => ( snapshot.property_yields # <<>>
                    <=> snapshot.period % 12 = 0 )

\* C19: when the available capital covers the cash required for the first
\* property, initialization creates property 0, leaves the available
\* capital less exactly that cash required as cash, and the period-0
\* snapshot carries exactly one purchase event, for property 0.
C19_InitialPurchase ==
    ( pc \in {"loop", "done", "fault"}
      /\ base_property.available_investment_amount >= FirstCashRequired )
    => /\ Len(all_snapshots) >= 1
       /\ all_snapshots[1].period = 0
       /\ Len(all_snapshots[1].properties) = 1
       /\ all_snapshots[1].properties[1].property_id = 0
       /\ all_snapshots[1].properties[1].cost_basis = FirstCashRequired
       /\ all_snapshots[1].cash_available
            = base_property.available_investment_amount - FirstCashRequired
       /\ Len(all_snapshots[1].property_purchases) = 1
       /\ all_snapshots[1].property_purchases[1].property_id = 0
       /\ all_snapshots[1].property_purchases[1].cash_required = FirstCashRequired
       /\ \A i \in 2..Len(all_snapshots) :
            \A k \in 1..Len(all_snapshots[i].property_purchases) :
                all_snapshots[i].property_purchases[k].property_id # 0

C19_Witness ==
    /\ pc = "loop"
    /\ month = 1
    /\ FirstPropertyLeveraged
    /\ base_property.available_investment_amount > FirstCashRequired
    /\ Len(properties) = 1
    /\ cash_available = base_property.available_investment_amount - FirstCashRequired
    /\ Len(all_snapshots[1].property_purchases) = 1

\* C20: a simulate() call on a simulator that has returned before returns
\* the snapshot sequence the call before returned, termination flags and
\* cumulative-injected totals included.
C20_SimulateIsPure ==
    [][ ( pc = "loop" /\ pc' = "done" /\ calls >= 1 )
        => snapshots' = snapshots ]_vars

(***************************************************************************)
(* The message create_mixed_strategy raises with.                          *)
(***************************************************************************)
RatioMessage == "Property ratios must sum to 1.0"

\* C21: a mixed configuration whose property ratios do not sum to 1.0 fails
\* at construction, so it never reaches a simulation step and never has a
\* snapshot; one whose ratios do sum to 1.0 is not rejected for its ratios.
C21_MixedRatiosChecked ==
    strategy.strategy_type = "mixed"
    => IF RatiosSumToOne(strategy)
       THEN raised # RatioMessage
       ELSE pc \in {"new", "rejected"} /\ all_snapshots = <<>>

\* C22: a run whose refinancing is enabled, in the strategy configuration or
\* in the profile, while the profile has no target refinance LTV is rejected
\* at construction: it never starts simulating, and no refinancing is ever
\* applied with a target LTV the caller did not give.
C22_TargetLtvRequired ==
    ( (strategy.enable_refinancing \/ base_property.enable_refinancing)
      /\ base_property.target_refinance_ltv = None )
    => /\ pc \in {"new", "rejected"}
       /\ \A i \in 1..Len(all_snapshots) :
              all_snapshots[i].refinancing_events = <<>>

(***************************************************************************)
(* The run has a profile: construction is over and raised nothing.         *)
(***************************************************************************)
Constructed == pc \notin {"new", "rejected"} /\ base_property # NoProfile

\* C23: every constructed profile with leveraged financing has a non-null
\* interest rate and a positive bond registration cost: construction
\* rejects the others.
C23_LeveragedProfileChecked ==
    (Constructed /\ base_property.financing_type = "leveraged")
    => /\ base_property.interest_rate # None
       /\ base_property.bond_registration > 0

\* C24: every constructed profile with cash financing has a loan to value
\* ratio of 0 and a null interest rate.
C24_CashProfileHasNoLoanTerms ==
    (Constructed /\ base_property.financing_type = "cash")
    => /\ base_property.ltv_ratio = 0
       /\ base_property.interest_rate = None

PaymentComputedIn(snapshot, k) ==
    \/ snapshot.properties[k].months_owned = 0
    \/ IsRefinancedIn(snapshot, snapshot.properties[k].property_id)

\* C26: when the interest rate of the profile is 0, every loan payment is
\* the loan divided by the number of payments: the profile's monthly bond
\* payment, and the payment of every property bought or refinanced, in the
\* snapshot of the period in which it is computed.
C26_ZeroRatePayment ==
    (Constructed /\ base_property.interest_rate = 0)
    => LET num_payments ==
               OrDefault(base_property.loan_term_years, DefaultLoanTermYears) * 12
       IN  /\ base_property.financing_type = "leveraged"
                => monthly_bond_payment
                     = ((base_property.purchase_price * base_property.ltv_ratio)
                          \div 100) \div num_payments
           /\ \A i \in 1..Len(all_snapshots) :
                \A k \in 1..Len(all_snapshots[i].properties) :
                    PaymentComputedIn(all_snapshots[i], k)
                    => all_snapshots[i].properties[k].monthly_payment
                         = all_snapshots[i].properties[k].loan_amount
                             \div num_payments

\* C27: in every snapshot, a yield whose denominator is 0 is 0: the rental
\* and net rental yields of a property whose current value is 0, its cash
\* on cash return when the cash invested is 0, its capital growth when the
\* purchase price is 0, and the portfolio yields when the portfolio value,
\* the cash invested or the total weight is 0; the snapshot is produced
\* all the same.
C27_ZeroDenominatorYieldsZero ==
    \A i \in 1..Len(all_snapshots) :
      LET snapshot == all_snapshots[i]
      IN  /\ \A k \in 1..Len(snapshot.property_yields) :
               LET prop   == snapshot.properties[k]
                   yields == snapshot.property_yields[k]
               IN  /\ prop.current_value = 0
                        => yields.rental_yield = 0 /\ yields.net_rental_yield = 0
                   /\ CashInvested(prop) = 0 => yields.cash_on_cash_return = 0
                   /\ prop.purchase_price = 0 => yields.capital_growth_yield = 0
          /\ \A k \in 1..Len(snapshot.portfolio_yields) :
               LET yields == snapshot.portfolio_yields[k]
               IN  /\ yields.total_portfolio_value = 0
                        => /\ yields.portfolio_rental_yield = 0
                           /\ yields.portfolio_net_rental_yield = 0
                           /\ yields.portfolio_capital_growth_yield = 0
                   /\ yields.total_cash_invested = 0
                        => yields.portfolio_cash_on_cash_return = 0

C27_Witness ==
    /\ pc = "done"
    /\ \E i \in 1..Len(snapshots) :
         /\ \E k \in 1..Len(snapshots[i].property_yields) :
              /\ snapshots[i].properties[k].current_value = 0
              /\ snapshots[i].properties[k].annual_rental_income > 0
              /\ snapshots[i].properties[k].months_owned > 0
              /\ CashInvested(snapshots[i].properties[k]) = 0
              /\ snapshots[i].property_yields[k].rental_yield = 0
         /\ snapshots[i].portfolio_yields # <<>>
         /\ snapshots[i].portfolio_yields[1].total_portfolio_value = 0
         /\ snapshots[i].portfolio_yields[1].total_annual_rental_income > 0

Operated(prev) == _apply_monthly_operations(_apply_appreciation(prev.properties))

CashAtCheck(prev, cur) ==
    prev.cash_available + TotalMonthlyCashflow(Operated(prev))
      + InjectedAmount(cur.capital_injections)

Extracted(cur) ==
    SumSeq([ k \in 1..Len(cur.refinancing_events) |->
               cur.refinancing_events[k].cash_extracted ])

Spent(cur) ==
    SumSeq([ k \in 1..Len(cur.property_purchases) |->
               cur.property_purchases[k].cash_required ])

\* C29: in every period the steps come in the order appreciation,
\* amortization and rent, capital injections, cash check, refinancing,
\* reinvestment, yields, snapshot: the cash check is made on the cash that
\* includes the capital injected in the period; the purchases of the period
\* are paid from that cash plus the cash refinancing extracted in the
\* period; refinancing precedes the purchases, so it never touches a
\* property bought in the period; and the yields are those of the
\* portfolio the snapshot holds.
C29_StepOrder ==
    \A i \in 2..Len(all_snapshots) :
      LET prev == all_snapshots[i - 1]
          cur  == all_snapshots[i]
          at_check == CashAtCheck(prev, cur)
          deficit  == _calculate_monthly_operating_deficit(Operated(prev))
      IN  /\ cur.simulation_ended <=> CashInsufficient(deficit, at_check)
          /\ cur.cash_available = at_check + Extracted(cur) - Spent(cur)
          /\ cur.property_purchases # <<>>
               => Spent(cur) <= at_check + Extracted(cur)
          /\ \A k \in 1..Len(cur.refinancing_events) :
               \A j \in 1..Len(cur.property_purchases) :
                 cur.refinancing_events[k].property_id
                   # cur.property_purchases[j].property_id
          /\ cur.property_yields
               = _calculate_annual_yields(cur.properties, cur.period, periods_per_year)

(***************************************************************************)
(* A period whose injection is what lets the run pass the cash check, one  *)
(* whose purchase is paid in part from the capital injected in it, and one *)
(* whose purchase is paid in part from the cash refinancing extracted in   *)
(* it.                                                                     *)
(***************************************************************************)
C29_Witness ==
    /\ pc = "done"
    /\ \E i \in 2..Len(snapshots) :
         LET at_check == CashAtCheck(snapshots[i - 1], snapshots[i])
             deficit  == _calculate_monthly_operating_deficit(Operated(snapshots[i - 1]))
             injected == InjectedAmount(snapshots[i].capital_injections)
         IN  /\ ~snapshots[i].simulation_ended
             /\ injected > 0
             /\ CashInsufficient(deficit, at_check - injected)
    /\ \E i \in 2..Len(snapshots) :
         /\ snapshots[i].property_purchases # <<>>
         /\ InjectedAmount(snapshots[i].capital_injections) > 0
         /\ Spent(snapshots[i])
              > CashAtCheck(snapshots[i - 1], snapshots[i])
                  - InjectedAmount(snapshots[i].capital_injections)
    /\ \E i \in 2..Len(snapshots) :
         /\ snapshots[i].property_purchases # <<>>
         /\ Extracted(snapshots[i]) > 0
         /\ Spent(snapshots[i]) > CashAtCheck(snapshots[i - 1], snapshots[i])

\* C30: in a period whose cash check set termination, neither refinancing
\* nor reinvestment is applied: the snapshot of the period has no
\* refinancing event and no purchase event, its portfolio is the one the
\* check saw (no loan balance changed, no property was added) and its cash
\* is the cash the check saw.
C30_NothingAfterFailedCheck ==
    \A i \in 2..Len(all_snapshots) :
      all_snapshots[i].simulation_ended
      => /\ all_snapshots[i].refinancing_events = <<>>
         /\ all_snapshots[i].property_purchases = <<>>
         /\ all_snapshots[i].properties = Operated(all_snapshots[i - 1])
         /\ all_snapshots[i].cash_available
              = CashAtCheck(all_snapshots[i - 1], all_snapshots[i])

(***************************************************************************)
(* A terminated period in which refinancing is enabled and due and would   *)
(* have extracted cash from a property, and reinvestment is enabled.       *)
(***************************************************************************)
C30_Witness ==
    /\ pc = "done"
    /\ strategy.enable_refinancing
    /\ strategy.enable_reinvestment
    /\ refinance_frequency_months # 0
    /\ \E i \in 2..Len(snapshots) :
         /\ snapshots[i].simulation_ended
         /\ snapshots[i].period % refinance_frequency_months = 0
         /\ \E k \in 1..Len(snapshots[i].properties) :
              Refinances(snapshots[i].properties[k])

(***************************************************************************)
(* The total shortfall of a period, summed over exactly the properties     *)
(* whose rent of the period is less than their expenses plus debt service. *)
(***************************************************************************)
Shortfall(props) ==
    SumSeq([ k \in 1..Len(props) |->
               IF props[k].annual_rental_income \div 12
                    < props[k].annual_expenses \div 12 + props[k].monthly_payment
               THEN props[k].annual_expenses \div 12 + props[k].monthly_payment
                      - props[k].annual_rental_income \div 12
               ELSE 0 ])

\* C31: termination for insufficient cash is set in a period if and only
\* if the total shortfall, summed over exactly the properties whose rent of
\* the period is less than their operating expenses plus debt service,
\* exceeds the cash available after the rent collection and the capital
\* injections of that period.
C31_TerminationIffShortfallExceedsCash ==
    \A i \in 2..Len(all_snapshots) :
      all_snapshots[i].simulation_ended
      <=> Shortfall(Operated(all_snapshots[i - 1]))
            > CashAtCheck(all_snapshots[i - 1], all_snapshots[i])

\* C33: in every snapshot whose termination flag is not set, cash available
\* is not negative: a run whose cash has gone below zero through negative
\* period cash flow is flagged terminated no later than the period in which
\* cash first becomes negative.
C33_UnflaggedCashNotNegative ==
    \A i \in 1..Len(all_snapshots) :
      ~all_snapshots[i].simulation_ended
      => all_snapshots[i].cash_available >= 0

(***************************************************************************)
(* The acquisition step of a period, read from its snapshot: the cash and  *)
(* the aggregate monthly cash flow of the portfolio right after the k-th   *)
(* purchase of the period, and the safety guard: less than six months of   *)
(* coverage of a negative aggregate cash flow.                             *)
(***************************************************************************)
CashAfterPurchase(cur, k) ==
    cur.cash_available
      + SumSeq([ j \in 1..(Len(cur.property_purchases) - k) |->
                   cur.property_purchases[k + j].cash_required ])

FlowAfterPurchase(cur, k) ==
    SumSeq([ j \in 1..(Len(cur.properties) - Len(cur.property_purchases) + k) |->
               cur.properties[j].monthly_cashflow ])

SafetyGuardStops(cash, total_monthly_cashflow) ==
    /\ total_monthly_cashflow < 0
    /\ cash < 6 * (0 - total_monthly_cashflow)

\* C32: within the acquisition step of one period the buying loop stops
\* either when the cash available does not cover the next unit or, as a
\* safety guard, when buying further would leave less than six months of
\* coverage against a negative aggregate cash flow: when the step is over
\* the cash does not cover the next unit or the guard holds, and no unit is
\* bought right after a purchase that left the guard holding.
C32_BuyingStopsAtSafetyGuard ==
    \A i \in 2..Len(all_snapshots) :
      LET cur == all_snapshots[i]
          n   == Len(cur.property_purchases)
      IN  /\ (strategy.enable_reinvestment /\ ~cur.simulation_ended)
               => \/ cur.cash_available
                       < NextCashRequired(_should_use_leverage_for_next_property(cur.properties))
                  \/ n > 0 /\ SafetyGuardStops(cur.cash_available, FlowAfterPurchase(cur, n))
          /\ \A k \in 1..(n - 1) :
               ~SafetyGuardStops(CashAfterPurchase(cur, k), FlowAfterPurchase(cur, k))

\* C34: for every configuration accepted at construction, the acquisition
\* loop of a period terminates after finitely many purchases: no run
\* enters a loop that never exits, and every purchase the loop makes lowers
\* the cash available by a positive cash requirement.
C34_AcquisitionLoopTerminates ==
    /\ pc # "hung"
    /\ \A i \in 2..Len(all_snapshots) :
         \A k \in 1..Len(all_snapshots[i].property_purchases) :
           all_snapshots[i].property_purchases[k].cash_required > 0

(***************************************************************************)
(* The net property cash flow of the period of snapshot i: the cash flows  *)
(* the snapshot records for the properties owned when the period began.    *)
(* NetChange is what the events and cash flows of snapshot i add to cash.  *)
(***************************************************************************)
NetCashFlow(snaps, i) ==
    IF i = 1 THEN 0
    ELSE SumSeq([ k \in 1..Len(snaps[i - 1].properties) |->
                    snaps[i].properties[k].monthly_cashflow ])

NetChange(snaps, i) ==
    NetCashFlow(snaps, i)
      + SumSeq([ k \in 1..Len(snaps[i].capital_injections) |->
                   snaps[i].capital_injections[k].amount ])
      + Extracted(snaps[i]) - Spent(snaps[i])

\* C35: cash is conserved across the run: at every snapshot, cash available
\* equals the initial available capital, minus the cash_required of all
\* purchase events so far (the initial purchase included), plus the amounts
\* of all capital injection events so far, plus the cash_extracted of all
\* refinancing events so far, plus the net property cash flows of every
\* elapsed period.
C35_CashConserved ==
    \A i \in 1..Len(all_snapshots) :
      all_snapshots[i].cash_available
        = base_property.available_investment_amount
            + SumSeq([ j \in 1..i |-> NetChange(all_snapshots, j) ])

(***************************************************************************)
(* A finished run with a purchase after the first one, a capital           *)
(* injection, a refinancing that extracted cash and a period with a        *)
(* nonzero net cash flow.                                                  *)
(***************************************************************************)
C35_Witness ==
    /\ pc = "done"
    /\ Len(all_snapshots) > 3
    /\ \E i \in 2..Len(all_snapshots) : all_snapshots[i].property_purchases # <<>>
    /\ \E i \in 2..Len(all_snapshots) : all_snapshots[i].capital_injections # <<>>
    /\ \E i \in 2..Len(all_snapshots) : Extracted(all_snapshots[i]) > 0
    /\ \E i \in 2..Len(all_snapshots) : NetCashFlow(all_snapshots, i) # 0

(***************************************************************************)
(* The ledger after its n-th acquisition is the prefix of length n of the  *)
(* ledger of any later snapshot.  MixWithinOne says that the number of     *)
(* leveraged properties of every such prefix is within one property of     *)
(* leveraged_property_ratio times n (the ratio is in percent).             *)
(***************************************************************************)
LeveragedAmong(props, n) ==
    Cardinality({ k \in 1..n : ~IsCash(props[k].financing_type) })

MixWithinOne(props) ==
    \A n \in 1..Len(props) :
      /\ 100 * LeveragedAmong(props, n) - strategy.leveraged_property_ratio * n <= 100
      /\ strategy.leveraged_property_ratio * n - 100 * LeveragedAmong(props, n) <= 100

MixedSummingToOne ==
    /\ strategy.strategy_type = "mixed"
    /\ RatiosSumToOne(strategy)

\* C36 (as stated): under a mixed strategy whose target ratios sum to 1,
\* after every acquisition the number of leveraged properties in the ledger
\* differs from leveraged_property_ratio times the number of properties in
\* the ledger by at most 1.
C36_Original ==
    MixedSummingToOne
    => \A i \in 1..Len(all_snapshots) : MixWithinOne(all_snapshots[i].properties)

\* C36 (amended): under a mixed strategy whose target ratios sum to 1 and
\* both lie between 0 and 1, after every acquisition the number of
\* leveraged properties in the ledger differs from leveraged_property_ratio
\* times the number of properties in the ledger by at most 1.
C36_Amended ==
    ( /\ MixedSummingToOne
      /\ strategy.leveraged_property_ratio \in 0..100
      /\ strategy.cash_property_ratio \in 0..100 )
    => \A i \in 1..Len(all_snapshots) : MixWithinOne(all_snapshots[i].properties)

(***************************************************************************)
(* A finished mixed run with ratios in range whose ledger holds at least   *)
(* four properties, of both kinds.                                         *)
(***************************************************************************)
C36_Witness ==
    /\ pc = "done"
    /\ MixedSummingToOne
    /\ strategy.leveraged_property_ratio \in 1..99
    /\ Len(properties) >= 4
    /\ LeveragedAmong(properties, Len(properties)) \in 1..(Len(properties) - 1)

(***************************************************************************)
(* What a refinancing event of a period says about its property: before    *)
(* is the property when the refinancing step began (after appreciation and *)
(* amortization), after is the property in the snapshot of the period, and *)
(* ltv is the target loan-to-value ratio in percent.                       *)
(***************************************************************************)
RefinancedAt(event, before, after, ltv) ==
    /\ event.property_value = before.current_value
    /\ event.old_loan_amount = before.loan_amount
    /\ event.new_loan_amount = (before.current_value * ltv) \div 100
    /\ event.new_ltv = ltv
    /\ event.cash_extracted = event.new_loan_amount - event.old_loan_amount
    /\ after.loan_amount = event.new_loan_amount
    /\ after.monthly_payment = _calculate_monthly_payment(event.new_loan_amount)

RefinancingEventsHold(ltv) ==
    \A i \in 2..Len(all_snapshots) :
      LET prev == all_snapshots[i - 1]
          cur  == all_snapshots[i]
      IN  /\ \A k \in 1..Len(cur.refinancing_events) :
               LET event == cur.refinancing_events[k]
               IN  RefinancedAt(event, Operated(prev)[event.property_id + 1],
                                cur.properties[event.property_id + 1], ltv)
          /\ cur.cash_available
               = CashAtCheck(prev, cur) - Spent(cur)
                   + SumSeq([ k \in 1..Len(cur.refinancing_events) |->
                                cur.refinancing_events[k].new_loan_amount
                                  - cur.refinancing_events[k].old_loan_amount ])

\* C37: when a refinancing fires for a property, its loan balance becomes
\* current_value times target_refinance_ltv, cash available increases by
\* exactly the new loan minus the old loan, its scheduled payment is
\* recalculated from the new balance, and the recorded event carries that
\* old loan, new loan, value at refinance, new LTV and cash extracted, with
\* cash_extracted equal to the new loan minus the old loan.
C37_RefinancingEvent ==
    RefinancingEventsHold(base_property.target_refinance_ltv)

\* C38: the cash required for the first property is the down payment plus
\* transfer duty, conveyancing fees, bond registration and furnishing,
\* where bond registration counts as 0 when the first property is bought
\* for cash: the initial purchase event of a cash-financed first property
\* carries the amount a later cash acquisition requires.
C38_FirstCashRequired ==
    \A i \in 1..Len(all_snapshots) :
      ( all_snapshots[i].period = 0 /\ all_snapshots[i].property_purchases # <<>> )
      => LET first == all_snapshots[i].property_purchases[1]
         IN  /\ first.cash_required
                  = (first.purchase_price - first.loan_amount)
                      + base_property.transfer_duty
                      + base_property.conveyancing_fees
                      + (IF IsCash(first.financing_type) THEN 0
                         ELSE base_property.bond_registration)
                      + OrDefault(base_property.furnishing_cost, 0)
             /\ IsCash(first.financing_type)
                  => first.cash_required = NextCashRequired(FALSE)

(***************************************************************************)
(* The number of purchase events emitted up to snapshot i, the initial     *)
(* purchase included.                                                      *)
(***************************************************************************)
PurchasesSoFar(snaps, i) ==
    SumSeq([ j \in 1..i |-> Len(snaps[j].property_purchases) ])

\* C39: properties are never removed from the ledger and ids are assigned
\* in strictly increasing order without reuse: in every snapshot the
\* property at ledger index i (from 0) has property_id i, the ledger of
\* each snapshot extends the ledger of the previous snapshot (the same
\* properties in the same places, the new ones after them, matching the
\* purchase events of the period), and the purchase counter equals the
\* ledger length and the number of purchase events emitted so far.
C39_LedgerOnlyGrows ==
    /\ \A i \in 1..Len(all_snapshots) :
         LET cur == all_snapshots[i]
             old == IF i = 1 THEN 0 ELSE Len(all_snapshots[i - 1].properties)
         IN  /\ \A k \in 1..Len(cur.properties) :
                  cur.properties[k].property_id = k - 1
             /\ Len(cur.properties) = old + Len(cur.property_purchases)
             /\ Len(cur.properties) = PurchasesSoFar(all_snapshots, i)
             /\ \A k \in 1..Len(cur.property_purchases) :
                  /\ cur.property_purchases[k].property_id = old + k - 1
                  /\ cur.properties[old + k].purchase_price
                       = cur.property_purchases[k].purchase_price
                  /\ cur.properties[old + k].financing_type
                       = cur.property_purchases[k].financing_type
             /\ \A k \in 1..old :
                  /\ cur.properties[k].property_id
                       = all_snapshots[i - 1].properties[k].property_id
                  /\ cur.properties[k].purchase_price
                       = all_snapshots[i - 1].properties[k].purchase_price
                  /\ cur.properties[k].financing_type
                       = all_snapshots[i - 1].properties[k].financing_type
                  /\ cur.properties[k].cost_basis
                       = all_snapshots[i - 1].properties[k].cost_basis
                  /\ cur.properties[k].months_owned
                       = all_snapshots[i - 1].properties[k].months_owned + 1
    /\ pc \in {"loop", "done"}
         => /\ property_counter = Len(properties)
            /\ property_counter = PurchasesSoFar(all_snapshots, Len(all_snapshots))
            /\ properties = all_snapshots[Len(all_snapshots)].properties

(***************************************************************************)
(* A finished run that bought properties in two different periods after    *)
(* the first purchase and refinanced one of them in between.               *)
(***************************************************************************)
C39_Witness ==
    /\ pc = "done"
    /\ property_counter >= 3
    /\ \E i, j \in 2..Len(all_snapshots) :
         /\ i < j
         /\ all_snapshots[i].property_purchases # <<>>
         /\ all_snapshots[j].property_purchases # <<>>
         /\ \E m \in i..j : all_snapshots[m].refinancing_events # <<>>

\* C40: for every positive refinancing cadence in years that a strategy
\* configuration accepts, the conversion to a period interval yields an
\* interval of at least 1 period and the refinancing eligibility check
\* evaluates in every period without faulting (no modulo by zero),
\* cadences shorter than one month included.
C40_CadenceNeverFaults ==
    ( /\ strategy # NoStrategy
      /\ pc \notin {"new", "rejected"}
      /\ strategy.refinance_frequency_years > 0 )
    => /\ refinance_frequency_months >= 1
       /\ pc # "fault"

=============================================================================
